---- MODULE Spec2Model ----
(***************************************************************************)
(* SAAT orchestration core: the checklist / approval / stepwise-execution  *)
(* workflow of BaseAgentWithChecklist (src/saat/agents/base.py) over the   *)
(* ChecklistItem / AgentChecklist / ApprovalResponse data classes          *)
(* (src/saat/models.py).                                                   *)
(*                                                                         *)
(* One behaviour of Spec is one invocation of execute_with_checklist on a  *)
(* fresh agent.  The overridable parts (create_checklist, the per-item     *)
(* callback execute_checklist_item) and the actor at the prompt are the    *)
(* environment: the checklist is drawn from Checklists, a callback either  *)
(* returns a string of RetVals or raises an Exception whose message is in  *)
(* Msgs (the class the handler at base.py:197 names), and the line typed   *)
(* at the prompt is drawn from Inputs.                                     *)
(*                                                                         *)
(* One behaviour of PipelineSpec is one invocation of                      *)
(* ContextBroker.execute_pipeline (src/saat/broker.py) on a fresh broker,  *)
(* the pipeline drawn from Pipelines; AnySpec is one run of either.        *)
(*                                                                         *)
(* One behaviour of WrapperSpec is one call of one of the entry points     *)
(* built on execute_with_checklist (validate_model, analyze_security,      *)
(* generate_documentation, generate_terraform, discover_requirements,      *)
(* ArchCharAnalysisAgent.analyze): the checklist workflow above with the   *)
(* wrapper's own checklist and callback, then the wrapper's substantive    *)
(* work, of which the requests and file-system operations are recorded.    *)
(*                                                                         *)
(* One behaviour of StructureSpec is one call of the validation agent's    *)
(* check_structure tool (src/saat/agents/validation.py) on a C4 model      *)
(* drawn from Models.  One behaviour of OverlapSpec is two overlapping     *)
(* execute_with_checklist invocations on one agent, with update_progress   *)
(* called from their item callbacks.  One behaviour of BrokerSpec is up    *)
(* to MaxRuns execute_pipeline calls, one after the other, on one broker.  *)
(***************************************************************************)
EXTENDS Integers, Sequences, FiniteSets, TLC

(* ------------------------------ bounds -------------------------------- *)
MaxItems == 3
MaxInputLen == 3

(* ------------------------- environment values ------------------------- *)
\* Python's None, for Optional[str] fields and the results placeholder.
None == "None"
\* Strings an item callback may return / messages it may raise with.
RetVals == {"Executed: task", "Completed: task"}
Msgs == {"boom", "timeout"}
\* What `response` holds when input() raised KeyboardInterrupt / EOFError
\* instead of returning a line.
NoLine == <<"KeyboardInterrupt">>
\* Characters a line typed at the prompt is made of.
Chars == {" ", "y", "Y", "e", "s", "n"}

RECURSIVE SeqsUpTo(_, _)
SeqsUpTo(S, n) ==
    IF n = 0 THEN {<<>>}
    ELSE LET shorter == SeqsUpTo(S, n - 1)
         IN  shorter \cup {Append(s, c) : s \in {t \in shorter : Len(t) = n - 1}, c \in S}

Inputs == SeqsUpTo(Chars, MaxInputLen)

(* ------------------------------ data model ---------------------------- *)
\* ChecklistItem(id, description, estimated_duration, dependencies):
\* completed defaults to False and result to None.
ChecklistItem(id, description, estimated_duration, dependencies) ==
    [id |-> id, description |-> description,
     estimated_duration |-> estimated_duration,
     dependencies |-> dependencies,
     completed |-> FALSE, result |-> None]

\* AgentChecklist(items): approved defaults to False, approved_by and
\* approved_at to None.
AgentChecklist(items) ==
    [items |-> items, requires_approval |-> TRUE,
     approved |-> FALSE, approved_by |-> None, approved_at |-> None]

\* ApprovalResponse(approved, feedback)
ApprovalResponse(approved, feedback) ==
    [approved |-> approved, feedback |-> feedback]

ItemId(i) == ToString(i)

\* The dependency lists an item at position i of an n-item checklist may
\* declare: none, the item before it, or the item after it.
DepChoices(i, n) == {<<>>} \cup {<<ItemId(j)>> : j \in {i - 1, i + 1} \cap (1..n)}

\* The checklists create_checklist may build: up to MaxItems items with ids
\* "1".."n", nothing completed, no result.
Checklists ==
    UNION {
      { AgentChecklist([i \in 1..n |->
            ChecklistItem(ItemId(i), "Task " \o ItemId(i), "Unknown", deps[i])])
        : deps \in {d \in [1..n -> UNION {DepChoices(i, n) : i \in 1..n}] :
                        \A i \in 1..n : d[i] \in DepChoices(i, n)} }
      : n \in 0..MaxItems }

(* ------------------- request_approval: input handling ----------------- *)
\* str.strip(): drop leading and trailing whitespace.
RECURSIVE LStrip(_)
LStrip(s) == IF s # <<>> /\ Head(s) = " " THEN LStrip(Tail(s)) ELSE s

RECURSIVE RStrip(_)
RStrip(s) ==
    IF s # <<>> /\ s[Len(s)] = " " THEN RStrip(SubSeq(s, 1, Len(s) - 1)) ELSE s

Strip(s) == RStrip(LStrip(s))

\* str.lower()
LowerChar(c) ==
    CASE c = "Y" -> "y"
      [] c = "E" -> "e"
      [] c = "S" -> "s"
      [] c = "N" -> "n"
      [] OTHER   -> c

Lower(s) == [i \in 1..Len(s) |-> LowerChar(s[i])]

\* Variant: any answer starting with y is taken as yes.
IsAffirmativePrefix(typed) ==
    LET t == Lower(Strip(typed)) IN t # <<>> /\ Head(t) = "y"

\* response in ['y', 'yes'] after .strip().lower()   (base.py:108-109)
IsAffirmative(typed) ==
    Lower(Strip(typed)) \in {<<"y">>, <<"y", "e", "s">>}

(* --------------------- request_approval: outcomes --------------------- *)
\* Each operator gives the checklist as request_approval leaves it and the
\* ApprovalResponse it returns.

\* Variant: the auto branch returns approved without marking the checklist.
RequestApprovalAutoNoMark(cl) ==
    [checklist |-> cl,
     response  |-> ApprovalResponse(TRUE, "Auto-approved in automation mode")]

\* auto_approve branch (base.py:97-104)
RequestApprovalAuto(cl) ==
    [checklist |-> [cl EXCEPT !.approved = TRUE, !.approved_by = "auto-approved"],
     response  |-> ApprovalResponse(TRUE, "Auto-approved in automation mode")]

\* Variant: the answering user is recorded whatever the answer.
RequestApprovalInputAlwaysSigned(cl, typed) ==
    LET approved == IsAffirmative(typed)
    IN  [checklist |-> [cl EXCEPT !.approved = approved,
                                  !.approved_by = "user"],
         response  |-> ApprovalResponse(approved,
                          IF approved THEN "User approval" ELSE "User cancelled")]

\* interactive branch, input() returned `typed` (base.py:107-121)
RequestApprovalInput(cl, typed) ==
    LET approved == IsAffirmative(typed)
    IN  [checklist |-> [cl EXCEPT !.approved = approved,
                                  !.approved_by = IF approved THEN "user" ELSE @],
         response  |-> ApprovalResponse(approved,
                          IF approved THEN "User approval" ELSE "User cancelled")]

\* interactive branch, input() raised KeyboardInterrupt / EOFError
\* (base.py:122-127)
RequestApprovalInterrupt(cl) ==
    [checklist |-> cl,
     response  |-> ApprovalResponse(FALSE, "Interrupted by user")]

(* ------------------ execute_with_checklist: item updates -------------- *)
\* Variant: the returned string also replaces the item's description.
ItemSucceededRelabels(item, result) ==
    [item EXCEPT !.completed = TRUE, !.result = result, !.description = result]

\* callback returned `result` (base.py:191-192)
ItemSucceeded(item, result) ==
    [item EXCEPT !.completed = TRUE, !.result = result]

\* Variant: the handler also marks the failed item completed.
ItemFailedCompleted(item, msg) ==
    [item EXCEPT !.completed = TRUE, !.result = "Error: " \o msg]

\* callback raised an Exception with message `msg` (base.py:200)
ItemFailed(item, msg) ==
    [item EXCEPT !.result = "Error: " \o msg]

\* Variant: the cancelled path reports success.
CancelledOutcomeSuccess(feedback) ==
    [keys |-> {"success", "cancelled", "checklist", "feedback"},
     success |-> TRUE, cancelled |-> TRUE,
     feedback |-> feedback, results |-> <<>>]

\* The dict returned on the cancelled path (base.py:175-180); the
\* "checklist" entry is the checklist object itself (variable checklist).
CancelledOutcome(feedback) ==
    [keys |-> {"success", "cancelled", "checklist", "feedback"},
     success |-> FALSE, cancelled |-> TRUE,
     feedback |-> feedback, results |-> <<>>]

\* The dict returned at the end of an approved run (base.py:205-210)
DoneOutcome(res) ==
    [keys |-> {"success", "cancelled", "checklist", "results"},
     success |-> TRUE, cancelled |-> FALSE,
     feedback |-> None, results |-> res]

\* No dict returned yet.
NoOutcome ==
    [keys |-> {}, success |-> FALSE, cancelled |-> FALSE,
     feedback |-> None, results |-> <<>>]

(* --------------------- ContextBroker: data model ---------------------- *)
MaxSteps == 2

\* dict values: a function from its keys
EmptyDict == <<>>
Put(d, k, v) == [x \in (DOMAIN d) \cup {k} |-> IF x = k THEN v ELSE d[x]]
Update(d, e) ==
    [x \in (DOMAIN d) \cup (DOMAIN e) |-> IF x \in DOMAIN e THEN e[x] ELSE d[x]]
Get(d, k) == IF k \in DOMAIN d THEN d[k] ELSE None

\* PipelineStep(name, agent, depends_on, required)   (models.py:248-256)
PipelineStep(name, agent, depends_on, required) ==
    [name |-> name, agent |-> agent, depends_on |-> depends_on,
     required |-> required]

StepName(i) == "s" \o ToString(i)

\* agent names a step may carry: the two _execute_step knows and another
Agents == {"discovery", "generator", "reviewer"}

\* depends_on of the step at position i of n: nothing, the step before it
\* or the step after it
StepDepChoices(i, n) ==
    {<<>>} \cup {<<StepName(j)>> : j \in {i - 1, i + 1} \cap (1..n)}

StepChoices(i, n) ==
    {PipelineStep(StepName(i), a, d, r) :
        a \in Agents, d \in StepDepChoices(i, n), r \in BOOLEAN}

\* the lists of steps for the positions i..n of an n-step pipeline
RECURSIVE StepsFrom(_, _)
StepsFrom(i, n) ==
    IF i > n THEN {<<>>}
    ELSE {<<st>> \o rest : st \in StepChoices(i, n), rest \in StepsFrom(i + 1, n)}

\* Pipeline.steps: up to MaxSteps steps with names "s1".."sn"
Pipelines == UNION {StepsFrom(1, n) : n \in 0..MaxSteps}

\* values the agents produce and callers put into the context
DiscoveryResults == {"DiscoveryResult:old", "DiscoveryResult:new"}
C4Models == {"C4Model:new"}
\* messages of the exceptions the agents' model requests raise
StepErrors == {"model request failed"}

\* initial_context arguments
InitialContexts ==
    { EmptyDict,
      [k \in {"repo_path"} |-> "/repo"],
      [k \in {"repo_path", "discovery"} |->
          IF k = "repo_path" THEN "/repo" ELSE "DiscoveryResult:old"],
      [k \in {"s1"} |-> "stale"] }

\* the entries execute_pipeline records per step (broker.py:59, 62)
StepSucceeded(data) == [success |-> TRUE, data |-> data, error |-> None]
StepFailed(msg) == [success |-> FALSE, data |-> None, error |-> msg]

\* Variant: the membership test is inverted.
MissingDepsInverted(step, res) ==
    SelectSeq(step.depends_on, LAMBDA dep : dep \in DOMAIN res)

\* missing_deps (broker.py:46-47)
MissingDeps(step, res) ==
    SelectSeq(step.depends_on, LAMBDA dep : dep \notin DOMAIN res)

\* _execute_step, generator branch: the discovery it finds in the results of
\* its dependencies, else in the context, else None (broker.py:93-102)
FindDiscovery(step, res, ctx) ==
    LET usable == SelectSeq(step.depends_on,
                     LAMBDA dep : /\ dep \in DOMAIN res
                                  /\ res[dep].success
                                  /\ res[dep].data \in DiscoveryResults)
    IN  IF usable # <<>> THEN res[Head(usable)].data
        ELSE Get(ctx, "discovery")

\* _execute_step up to its await: the message of the ValueError it raises
\* itself, or None when it goes on to call the agent (broker.py:87-111)
StepRefusal(step, res, ctx) ==
    CASE step.agent = "discovery" -> None
      [] step.agent = "generator" ->
            IF FindDiscovery(step, res, ctx) = None
            THEN "Generator requires discovery result" ELSE None
      [] OTHER -> "Unknown agent type: " \o step.agent

\* what the awaited agent returns (broker.py:89, 108)
AgentOutput(step) ==
    IF step.agent = "discovery" THEN "DiscoveryResult:new" ELSE "C4Model:new"

\* Variant: any() in place of all().
AggregateSuccessAny(res) == \E k \in DOMAIN res : res[k].success

\* Variant: a run that recorded nothing does not count as a success.
AggregateSuccessNonEmpty(res) ==
    res # EmptyDict /\ \A k \in DOMAIN res : res[k].success

\* all(r.get("success", False) for r in results.values())   (broker.py:73)
AggregateSuccess(res) == \A k \in DOMAIN res : res[k].success

\* the dict execute_pipeline returns (broker.py:69-74)
PipelineOutcome(res) ==
    [returned |-> TRUE, results |-> res, success |-> AggregateSuccess(res)]

NoPipelineOutcome ==
    [returned |-> FALSE, results |-> EmptyDict, success |-> FALSE]

(* ------------------ checklist-based wrappers: data model -------------- *)
MaxChars == 3

\* The entry points built on execute_with_checklist.
DictWrappers ==
    {"validate_model", "analyze_security", "generate_documentation",
     "generate_terraform", "discover_requirements"}
Wrappers == DictWrappers \cup {"analyze"}

\* ArchCharacteristic(name, selected)   (models_archchar.py:17-36)
ArchCharacteristic(name, selected) == [name |-> name, selected |-> selected]

\* "Caching" stands for a custom characteristic, which tool_map lacks.
CharNames == {"Availability", "Security", "Caching"}
Characteristics ==
    {ArchCharacteristic(n, s) : n \in CharNames, s \in BOOLEAN}

\* keys of tool_map (archchar.py:2385-2400)
ToolMap ==
    {"Availability", "Scalability", "Performance", "Security", "Reliability",
     "Fault Tolerance", "Recoverability", "Maintainability", "Testability",
     "Deployability", "Configurability", "Extensibility", "Interoperability",
     "Usability"}

\* the formats generate_documentation knows
Formats == {"markdown", "plantuml", "mermaid", "adr"}

\* The arguments of a call.  `flags` holds the optional arguments that
\* change what create_checklist builds or what the entry point does:
\* "framework" (validate_model: a compliance framework is given),
\* "threat_model" and "output_file" (analyze_security), the formats
\* (generate_documentation), "file" (discover_requirements: one file path
\* rather than none).  Arguments that only change the text of a description
\* (provider, region, project name, the number of characteristics or files)
\* are left out.
WrapperInput(kind, flags, characteristics) ==
    [kind |-> kind, flags |-> flags, characteristics |-> characteristics]

NoWrapperInput == WrapperInput("none", {}, <<>>)

WrapperInputs ==
    {WrapperInput("validate_model", f, <<>>) : f \in SUBSET {"framework"}}
    \cup {WrapperInput("analyze_security", f, <<>>) :
            f \in SUBSET {"threat_model", "output_file"}}
    \cup {WrapperInput("generate_documentation", f, <<>>) : f \in SUBSET Formats}
    \cup {WrapperInput("generate_terraform", {}, <<>>)}
    \cup {WrapperInput("discover_requirements", f, <<>>) : f \in SUBSET {"file"}}
    \cup {WrapperInput("analyze", {}, cs) :
            cs \in SeqsUpTo(Characteristics, MaxChars)}

\* Lines the actor types at a wrapper's prompt.
Answers == {<<"y">>, <<"Y", "e", "s">>, <<"n">>, <<>>}

\* An item as create_checklist writes it: its id and its dependencies.
Item(id, dependencies) == [id |-> id, dependencies |-> dependencies]

\* dependency lists several checklists use
AfterFirst == <<"1">>
\* Variant: the closing item also names an id of its own position.
AfterChecksAndSelf == <<"2", "3", "4", "5", "6", "7">>

AfterChecks == <<"2", "3", "4", "5", "6">>

\* the first six items of the validation, security and requirements
\* checklists (validation.py:190-226, security.py:235-271,
\* requirements.py:139-174)
LoadAndFiveChecks ==
    <<Item("1", <<>>), Item("2", AfterFirst), Item("3", AfterFirst),
      Item("4", AfterFirst), Item("5", AfterFirst), Item("6", AfterFirst)>>

\* Variant: the counter is not advanced after an append.
AppendItemNoIncrement(st, dependencies) ==
    [items |-> Append(st.items, Item(ToString(st.item_id), dependencies)),
     item_id |-> st.item_id]

\* DocumentationAgent.create_checklist numbers its items with a counter:
\* items.append(ChecklistItem(id=str(item_id), ...)); item_id += 1
AppendItem(st, dependencies) ==
    [items |-> Append(st.items, Item(ToString(st.item_id), dependencies)),
     item_id |-> st.item_id + 1]

\* DocumentationAgent.create_checklist (documentation.py:184-258)
DocumentationItems(formats) ==
    LET s0 == [items |-> <<Item("1", <<>>), Item("2", AfterFirst)>>,
               item_id |-> 3]
        s1 == IF "plantuml" \in formats
              THEN AppendItem(AppendItem(s0, AfterFirst), AfterFirst) ELSE s0
        s2 == IF "mermaid" \in formats THEN AppendItem(s1, AfterFirst) ELSE s1
        s3 == IF "adr" \in formats THEN AppendItem(s2, AfterFirst) ELSE s2
    IN  AppendItem(AppendItem(s3, AfterFirst), AfterFirst).items

\* The items, in order, that each create_checklist builds.
WrapperItems(args) ==
    CASE args.kind = "validate_model" ->
            LoadAndFiveChecks
            \o (IF "framework" \in args.flags
                THEN <<Item("7", AfterFirst), Item("8", AfterChecks \o <<"7">>)>>
                ELSE <<Item("7", AfterChecks)>>)
      [] args.kind = "analyze_security" ->
            LoadAndFiveChecks
            \o (IF "threat_model" \in args.flags
                THEN <<Item("7", AfterChecks), Item("8", AfterChecks)>>
                ELSE <<Item("7", AfterChecks)>>)
      [] args.kind = "generate_documentation" ->
            DocumentationItems(args.flags)
      [] args.kind = "generate_terraform" ->
            <<Item("1", <<>>), Item("2", AfterFirst), Item("3", AfterFirst),
              Item("4", AfterFirst), Item("5", <<"2">>), Item("6", <<"4">>),
              Item("7", <<"2", "4">>), Item("8", <<"2", "4">>),
              Item("9", <<"2", "3", "4", "5", "6", "7", "8">>)>>
      [] args.kind = "discover_requirements" ->
            LoadAndFiveChecks \o <<Item("7", AfterChecks)>>
      [] args.kind = "analyze" ->
            <<Item("1", <<>>), Item("2", <<>>), Item("3", <<"1", "2">>),
              Item("4", <<"3">>), Item("5", <<"4">>), Item("6", <<"5">>)>>

\* what the wrapper's create_checklist returns
WrapperChecklist(args) ==
    LET its == WrapperItems(args)
    IN  AgentChecklist([i \in 1..Len(its) |->
            ChecklistItem(its[i].id, "Task " \o its[i].id, "Unknown",
                          its[i].dependencies)])

\* what the wrapper's execute_checklist_item returns: the base class's
\* "Executed: ..." (base.py:146), RequirementsAgent's "Completed: ..."
\* (requirements.py:191-206)
CallbackResult(kind) ==
    IF kind = "discover_requirements" THEN "Completed: task"
    ELSE "Executed: task"

\* The substantive work of a dict-returning wrapper, as the requests and
\* file-system operations it issues in order: "llm" a request to the
\* language model (agent.run), "tool" a direct call of a registered tool
\* function, "mkdir" / "write" / "read" on the file system.
Plan(args) ==
    CASE args.kind = "validate_model" -> <<"llm">>
      [] args.kind = "analyze_security" ->
            <<"llm">> \o (IF "output_file" \in args.flags
                          THEN <<"mkdir", "write">> ELSE <<>>)
      [] args.kind = "generate_documentation" ->
            <<"mkdir", "tool", "write">>
            \o (IF "plantuml" \in args.flags
                THEN <<"tool", "write">> ELSE <<>>)
      [] args.kind = "generate_terraform" ->
            <<"mkdir", "llm", "write", "write", "write", "write">>
      [] args.kind = "discover_requirements" ->
            (IF "file" \in args.flags THEN <<"read">> ELSE <<>>) \o <<"llm">>
      [] OTHER -> <<>>

\* the keys the wrapper adds to the dict before returning it
AddedKeys(args) ==
    CASE args.kind = "validate_model" -> {"validation", "summary"}
      [] args.kind = "analyze_security" ->
            {"security_report", "summary"}
            \cup (IF "output_file" \in args.flags THEN {"output_file"} ELSE {})
      [] args.kind = "generate_documentation" ->
            {"generated_files", "output_dir", "summary"}
      [] args.kind = "generate_terraform" ->
            {"terraform_config", "generated_files", "output_dir", "summary"}
      [] args.kind = "discover_requirements" -> {"requirements", "summary"}
      [] OTHER -> {}

\* What an entry point returns: `keys` are the keys of the dict or the
\* fields of the result object; the other components are their values where
\* present.
WrapperResult(keys, success, cancelled, analyzed, summary) ==
    [keys |-> keys, success |-> success, cancelled |-> cancelled,
     characteristics_analyzed |-> analyzed, executive_summary |-> summary]

NoWrapperResult == WrapperResult({}, FALSE, FALSE, 0, None)

\* `return result`: the dict of execute_with_checklist, with what the
\* wrapper added.
DictResult(out, added) ==
    WrapperResult(out.keys \cup added, out.success, out.cancelled, 0, None)

\* fields of ArchCharAnalysisResult (models_archchar.py:148-203)
ArchCharResultFields ==
    {"project_name", "architect", "analysis_date", "model_metadata",
     "characteristics_analyzed", "overall_score", "analyses", "critical_gaps",
     "high_priority_gaps", "top_recommendations", "executive_summary",
     "architecture_patterns_recommended", "technologies_recommended",
     "score_by_category", "score_by_rating"}

\* ArchCharAnalysisResult(...): it has no success and no cancelled field.
ArchCharAnalysisResult(analyzed, summary) ==
    WrapperResult(ArchCharResultFields, FALSE, FALSE, analyzed, summary)

\* the result analyze returns on the cancelled path (archchar.py:2371-2379)
ArchCharCancelledResult ==
    ArchCharAnalysisResult(0, "Analysis was cancelled by user.")

\* the result analyze returns after the loop (archchar.py:2500-2563)
ArchCharDoneResult(an) ==
    ArchCharAnalysisResult(Len(an),
        "Architecture analysis completed for " \o ToString(Len(an))
            \o " characteristics.")

IsSelected(c) == c.selected

\* How agent.run ends: it raises, or it returns a result whose data is the
\* str that result_type=str declares (archchar.py:170-175).
LlmReplies ==
    {[raised |-> TRUE, value |-> m] : m \in StepErrors}
    \cup {[raised |-> FALSE, value |-> "analysis text"]}

\* The try body of the loop for one characteristic (archchar.py:2412-2450):
\* agent.run, then analysis_data.get(...) on the returned data, then the
\* construction of the CharacteristicAnalysis.  The data is a str, on which
\* .get raises AttributeError; the construction itself omits the required
\* fields characteristic_id, category, compliance_score, status and summary
\* (models_archchar.py:110-146) and so would raise ValidationError.  Every
\* path ends in the handler.
TryAnalysis(char, reply) ==
    IF reply.raised
    THEN [ok |-> FALSE, error |-> reply.value]
    ELSE [ok |-> FALSE, error |-> "'str' object has no attribute 'get'"]

\* print(f"Warning: Failed to analyze {char.name}: {e}")
Warning(char, error) ==
    "Warning: Failed to analyze " \o char.name \o ": " \o error

(* ----------------------- check_structure: data model ------------------ *)
MaxRefs == 1

\* element ids
Ids == {"a", "b"}

\* the parts of the elements check_structure reads
SystemContext(id) == [id |-> id]
ExternalSystem(id) == [id |-> id]
Container(id, system_id) ==
    [id |-> id, name |-> "container " \o id, system_id |-> system_id]
Component(id, container_id) ==
    [id |-> id, name |-> "component " \o id, container_id |-> container_id]
Relationship(id, source, target) ==
    [id |-> id, source |-> source, target |-> target]

C4Model(systems, containers, components, externals, relationships) ==
    [systems |-> systems, containers |-> containers,
     components |-> components, externals |-> externals,
     relationships |-> relationships]

EmptyModel == C4Model(<<>>, <<>>, <<>>, <<>>, <<>>)

\* the lists of systems (of external systems): none, one, or two of them
IdLists == {<<>>, <<"a">>, <<"b">>, <<"a", "b">>}

\* C4 models: up to MaxRefs containers, components and relationships
Models ==
    {C4Model([i \in 1..Len(ss) |-> SystemContext(ss[i])], cs, ms,
             [i \in 1..Len(es) |-> ExternalSystem(es[i])],
             [i \in 1..Len(rs) |-> Relationship("r" \o ToString(i), rs[i][1], rs[i][2])]) :
        ss \in IdLists, es \in IdLists,
        cs \in SeqsUpTo({Container(i, s) : i \in Ids, s \in Ids}, MaxRefs),
        ms \in SeqsUpTo({Component(i, c) : i \in Ids, c \in Ids}, MaxRefs),
        rs \in SeqsUpTo(Ids \X Ids, MaxRefs)}

\* {x.id for x in xs}
IdsOf(xs) == {xs[i].id : i \in 1..Len(xs)}

\* Variant: the external systems are left out of the known ids.
AllIdsWithoutExternals(model) ==
    IdsOf(model.systems) \cup IdsOf(model.containers)
        \cup IdsOf(model.components)

\* all_ids (validation.py:91-95)
AllIds(model) ==
    IdsOf(model.systems) \cup IdsOf(model.containers)
        \cup IdsOf(model.components) \cup IdsOf(model.externals)

\* the loop over model.relationships (validation.py:98-102), from position i
RECURSIVE RelationshipIssues(_, _)
RelationshipIssues(model, i) ==
    IF i > Len(model.relationships) THEN <<>>
    ELSE LET rel == model.relationships[i]
         IN  (IF rel.source \notin AllIds(model)
              THEN <<"Relationship " \o rel.id \o ": source '" \o rel.source
                        \o "' not found">>
              ELSE <<>>)
             \o (IF rel.target \notin AllIds(model)
                 THEN <<"Relationship " \o rel.id \o ": target '" \o rel.target
                           \o "' not found">>
                 ELSE <<>>)
             \o RelationshipIssues(model, i + 1)

\* the loop over model.containers (validation.py:105-108), from position i
RECURSIVE ContainerIssues(_, _)
ContainerIssues(model, i) ==
    IF i > Len(model.containers) THEN <<>>
    ELSE LET container == model.containers[i]
         IN  (IF container.system_id \notin IdsOf(model.systems)
              THEN <<"Container " \o container.name
                        \o ": references unknown system '"
                        \o container.system_id \o "'">>
              ELSE <<>>)
             \o ContainerIssues(model, i + 1)

\* the loop over model.components (validation.py:111-114), from position i
RECURSIVE ComponentIssues(_, _)
ComponentIssues(model, i) ==
    IF i > Len(model.components) THEN <<>>
    ELSE LET component == model.components[i]
         IN  (IF component.container_id \notin IdsOf(model.containers)
              THEN <<"Component " \o component.name
                        \o ": references unknown container '"
                        \o component.container_id \o "'">>
              ELSE <<>>)
             \o ComponentIssues(model, i + 1)

\* the dict check_structure returns (validation.py:116-120)
CheckStructure(model) ==
    [returned |-> TRUE,
     issues |-> RelationshipIssues(model, 1) \o ContainerIssues(model, 1)
                   \o ComponentIssues(model, 1),
     total_elements |-> Cardinality(AllIds(model)),
     relationships |-> Len(model.relationships)]

NoStructure ==
    [returned |-> FALSE, issues |-> <<>>, total_elements |-> 0,
     relationships |-> 0]

(* -------------------- overlapping invocations: data ------------------- *)
MaxUpdates == 1

\* the checklists the two overlapping invocations build: one or two
\* independent items
OverlapChecklists ==
    {AgentChecklist([i \in 1..n |->
        ChecklistItem(ItemId(i), "Task " \o ItemId(i), "Unknown", <<>>)]) :
        n \in 1..2}

\* what the callbacks of the overlapping invocations return and raise, and
\* what update_progress is called with
OverlapRetVals == {"Executed: task"}
OverlapMsgs == {"boom"}
ProgressIds == {ItemId(1), ItemId(2)}
ProgressResults == {"50% done"}

\* the position and the locals of an execute_with_checklist invocation
\* (base.py:164-210); `object` numbers the checklist it built
Invocation(at, auto, object, cl, app, i, res, out, called) ==
    [pc |-> at, auto_approve |-> auto, object |-> object, checklist |-> cl,
     built_checklist |-> cl, approval |-> app, idx |-> i, results |-> res,
     outcome |-> out, calls |-> called]

NoInvocation ==
    Invocation("idle", FALSE, 0, AgentChecklist(<<>>),
               ApprovalResponse(FALSE, None), 1, <<>>, NoOutcome, <<>>)

\* request_approval(checklist, auto_approve) when the prompt, if shown, is
\* answered by `answer` (base.py:97-127)
RequestApproval(cl, auto, answer) ==
    IF auto THEN RequestApprovalAuto(cl)
    ELSE IF answer = NoLine THEN RequestApprovalInterrupt(cl)
    ELSE RequestApprovalInput(cl, answer)

\* the loop of update_progress from position i (base.py:222-226)
RECURSIVE MarkProgress(_, _, _, _)
MarkProgress(items, i, item_id, result) ==
    IF i > Len(items) THEN items
    ELSE IF items[i].id = item_id
         THEN [items EXCEPT ![i] = ItemSucceeded(@, result)]
         ELSE MarkProgress(items, i + 1, item_id, result)

(* --------------------- repeated pipeline runs: data ------------------- *)
MaxRuns == 2

\* the pipelines handed to a broker that is used again: nothing to do, a
\* discovery, a generator on its own, a discovery feeding a generator, and
\* an optional and a required generator that name a later step
BrokerPipelines ==
    { <<>>,
      <<PipelineStep(StepName(1), "discovery", <<>>, TRUE)>>,
      <<PipelineStep(StepName(1), "generator", <<>>, TRUE)>>,
      <<PipelineStep(StepName(1), "discovery", <<>>, FALSE),
        PipelineStep(StepName(2), "generator", <<StepName(1)>>, TRUE)>>,
      <<PipelineStep(StepName(1), "generator", <<StepName(2)>>, FALSE),
        PipelineStep(StepName(2), "discovery", <<>>, TRUE)>>,
      <<PipelineStep(StepName(1), "generator", <<StepName(2)>>, TRUE)>> }

(* -------------------------------- state ------------------------------- *)
VARIABLES
    pc,                 \* position of execute_with_checklist
    auto_approve,       \* argument of the invocation
    checklist,          \* local `checklist` (the AgentChecklist object)
    current_checklist,  \* self.current_checklist: 0 = None, k = k-th built
    built,              \* number of checklists built on this agent
    built_checklist,    \* history: the checklist as create_checklist built it
    approval,           \* local `approval` (ApprovalResponse)
    response,           \* local `response` of request_approval: the typed line
    idx,                \* position of the for loop over checklist.items
    results,            \* local `results`
    outcome,            \* the returned dict
    calls,              \* history: item positions whose callback was invoked
    finished,           \* history: how each invoked callback ended
    approval_requests,  \* history: calls of request_approval
    gate_checks,        \* history: evaluations of `if not approval.approved`
    input_reads         \* history: calls of input()

\* ContextBroker (src/saat/broker.py) and one execute_pipeline run on it
VARIABLES
    ppc,                \* position of execute_pipeline
    pipeline,           \* argument `pipeline`: its list of steps
    context,            \* self.context
    presults,           \* local `results` of execute_pipeline
    sidx,               \* position of the for loop over pipeline.steps
    broke,              \* the loop was left by `break`
    poutcome,           \* the returned dict
    perror,             \* message of the exception execute_pipeline raised
    started,            \* history: step positions handed to _execute_step
    ended               \* history: how each _execute_step call ended

VARIABLES
    wpc,                \* where the wrapper entry point is
    winput,             \* the arguments of the call
    selected_chars,     \* analyze: local selected_chars
    widx,               \* position in the substantive work
    effects,            \* history: requests and file-system operations issued
    analyses,           \* analyze: local analyses
    log,                \* analyze: warnings printed
    attempted,          \* history: the try bodies entered and how each ended
    wresult             \* what the entry point returned

VARIABLES
    vpc,                \* where the check_structure call is
    c4model,            \* ctx.deps.model
    structure           \* the dict check_structure returned

\* A second execute_with_checklist invocation on the same agent, started
\* while the first is suspended, and the calls of update_progress
VARIABLES
    second,             \* the second invocation's position and locals
    progress            \* history: the calls of update_progress

\* Further execute_pipeline calls on the same ContextBroker
VARIABLES
    starts              \* history: the execute_pipeline calls made so far

cvars == <<pc, auto_approve, checklist, current_checklist, built,
           built_checklist, approval, response, idx, results, outcome, calls,
           finished, approval_requests, gate_checks, input_reads>>

pvars == <<ppc, pipeline, context, presults, sidx, broke, poutcome, perror,
           started, ended>>

wvars == <<wpc, winput, selected_chars, widx, effects, analyses, log,
           attempted, wresult>>

svars == <<vpc, c4model, structure>>

ovars == <<second, progress>>

bvars == <<starts>>

\* what the checklist workflow leaves alone
others == <<pvars, wvars, svars, ovars, bvars>>

\* what the pipeline leaves alone
pothers == <<cvars, wvars, svars, ovars, bvars>>

\* what the wrappers' own steps leave alone
wothers == <<cvars, pvars, svars, ovars, bvars>>

\* what check_structure leaves alone
sothers == <<cvars, pvars, wvars, ovars, bvars>>

vars == <<cvars, pvars, wvars, svars, ovars, bvars>>

Init ==
    /\ pc = "idle"
    /\ auto_approve = FALSE
    /\ checklist = AgentChecklist(<<>>)
    /\ current_checklist = 0
    /\ built = 0
    /\ built_checklist = AgentChecklist(<<>>)
    /\ approval = ApprovalResponse(FALSE, None)
    /\ response = <<>>
    /\ idx = 1
    /\ results = <<>>
    /\ outcome = NoOutcome
    /\ calls = <<>>
    /\ finished = <<>>
    /\ approval_requests = 0
    /\ gate_checks = 0
    /\ input_reads = 0
    /\ ppc = "idle"
    /\ pipeline = <<>>
    /\ context = EmptyDict
    /\ presults = EmptyDict
    /\ sidx = 1
    /\ broke = FALSE
    /\ poutcome = NoPipelineOutcome
    /\ perror = None
    /\ started = <<>>
    /\ ended = <<>>
    /\ wpc = "idle"
    /\ winput = NoWrapperInput
    /\ selected_chars = <<>>
    /\ widx = 1
    /\ effects = <<>>
    /\ analyses = <<>>
    /\ log = <<>>
    /\ attempted = <<>>
    /\ wresult = NoWrapperResult
    /\ vpc = "idle"
    /\ c4model = EmptyModel
    /\ structure = NoStructure
    /\ second = NoInvocation
    /\ progress = <<>>
    /\ starts = <<>>

(* ------------------------------- actions ------------------------------ *)
\* execute_with_checklist is called: build the checklist, keep it as
\* self.current_checklist, display it, call request_approval
\* (base.py:164-172).
Invoke(auto, cl) ==
    /\ pc = "idle"
    /\ ppc = "idle"
    /\ auto_approve' = auto
    /\ checklist' = cl
    /\ built_checklist' = cl
    /\ built' = built + 1
    /\ current_checklist' = built + 1
    /\ approval_requests' = approval_requests + 1
    /\ pc' = "approval"
    /\ UNCHANGED <<approval, response, idx, results, outcome, calls, finished,
                   gate_checks, input_reads>>
    /\ UNCHANGED others

\* request_approval on the auto branch (base.py:97-104); its return value
\* becomes execute_with_checklist's `approval` (base.py:172).
AutoApproval ==
    /\ pc = "approval"
    /\ auto_approve
    /\ checklist' = RequestApprovalAuto(checklist).checklist
    /\ approval' = RequestApprovalAuto(checklist).response
    /\ pc' = "gate"
    /\ UNCHANGED <<auto_approve, current_checklist, built, built_checklist,
                   response, idx, results, outcome, calls, finished,
                   approval_requests, gate_checks, input_reads>>
    /\ UNCHANGED others

\* request_approval on the interactive branch, input() returned `typed`
\* (base.py:107-121).
InputApproval(typed) ==
    /\ pc = "approval"
    /\ ~auto_approve
    /\ input_reads' = input_reads + 1
    /\ response' = typed
    /\ checklist' = RequestApprovalInput(checklist, typed).checklist
    /\ approval' = RequestApprovalInput(checklist, typed).response
    /\ pc' = "gate"
    /\ UNCHANGED <<auto_approve, current_checklist, built, built_checklist,
                   idx, results, outcome, calls, finished,
                   approval_requests, gate_checks>>
    /\ UNCHANGED others

\* request_approval on the interactive branch, input() raised
\* KeyboardInterrupt or EOFError (base.py:107-108, 122-127).
InterruptApproval ==
    /\ pc = "approval"
    /\ ~auto_approve
    /\ input_reads' = input_reads + 1
    /\ response' = NoLine
    /\ checklist' = RequestApprovalInterrupt(checklist).checklist
    /\ approval' = RequestApprovalInterrupt(checklist).response
    /\ pc' = "gate"
    /\ UNCHANGED <<auto_approve, current_checklist, built, built_checklist,
                   idx, results, outcome, calls, finished,
                   approval_requests, gate_checks>>
    /\ UNCHANGED others

\* Variant: the decision is not checked, the loop is entered regardless.
GateNoReturn ==
    /\ pc = "gate"
    /\ response' = <<>>
    /\ results' = <<>>
    /\ idx' = 1
    /\ pc' = "executing"
    /\ UNCHANGED <<checklist, approval, outcome, auto_approve,
                   current_checklist, built, built_checklist, calls, finished,
                   approval_requests, gate_checks, input_reads>>
    /\ UNCHANGED others

\* request_approval has returned (its local `response` is gone);
\* execute_with_checklist checks the decision and either returns the
\* cancelled dict or enters the loop (base.py:174-184).
Gate ==
    /\ pc = "gate"
    /\ gate_checks' = gate_checks + 1
    /\ response' = <<>>
    /\ IF ~approval.approved
       THEN /\ outcome' = CancelledOutcome(approval.feedback)
            /\ pc' = "cancelled"
            /\ UNCHANGED <<results, idx>>
       ELSE /\ results' = <<>>
            /\ idx' = 1
            /\ pc' = "executing"
            /\ UNCHANGED outcome
    /\ UNCHANGED <<checklist, approval, auto_approve, current_checklist,
                   built, built_checklist, calls, finished,
                   approval_requests, input_reads>>
    /\ UNCHANGED others

\* Variant: approval is requested again before each item.
ItemStartAsksAgain ==
    /\ pc = "executing"
    /\ idx <= Len(checklist.items)
    /\ calls' = Append(calls, idx)
    /\ approval_requests' = approval_requests + 1
    /\ pc' = "in_item"
    /\ UNCHANGED <<auto_approve, checklist, current_checklist, built,
                   built_checklist, approval, response, idx, results, outcome,
                   finished, gate_checks, input_reads>>
    /\ UNCHANGED others

\* Variant: an item is run only when every item it depends on is completed,
\* otherwise it is skipped with a placeholder result.
ItemStartGated ==
    /\ pc = "executing"
    /\ idx <= Len(checklist.items)
    /\ LET deps == checklist.items[idx].dependencies
           ready == \A d \in 1..Len(deps) :
                       \E j \in 1..Len(checklist.items) :
                           /\ checklist.items[j].id = deps[d]
                           /\ checklist.items[j].completed
       IN  IF ready
           THEN /\ calls' = Append(calls, idx)
                /\ pc' = "in_item"
                /\ UNCHANGED <<idx, results>>
           ELSE /\ idx' = idx + 1
                /\ results' = Append(results, None)
                /\ UNCHANGED <<calls, pc>>
    /\ UNCHANGED <<auto_approve, checklist, current_checklist, built,
                   built_checklist, approval, response, outcome,
                   finished, approval_requests, gate_checks, input_reads>>
    /\ UNCHANGED others

\* The loop takes the next item and awaits its callback (base.py:186-190).
ItemStart ==
    /\ pc = "executing"
    /\ idx <= Len(checklist.items)
    /\ calls' = Append(calls, idx)
    /\ pc' = "in_item"
    /\ UNCHANGED <<auto_approve, checklist, current_checklist, built,
                   built_checklist, approval, response, idx, results, outcome,
                   finished, approval_requests, gate_checks, input_reads>>
    /\ UNCHANGED others

\* The callback returned `result` (base.py:191-195).
ItemReturn(result) ==
    /\ pc = "in_item"
    /\ checklist' = [checklist EXCEPT
                        !.items[idx] = ItemSucceeded(@, result)]
    /\ results' = Append(results, result)
    /\ finished' = Append(finished, [item |-> idx, kind |-> "return", value |-> result])
    /\ idx' = idx + 1
    /\ pc' = "executing"
    /\ UNCHANGED <<auto_approve, current_checklist, built, built_checklist,
                   approval, response, outcome, calls, approval_requests,
                   gate_checks, input_reads>>
    /\ UNCHANGED others

\* Variant: a failed item is tried again.
ItemRaiseRetry(msg) ==
    /\ pc = "in_item"
    /\ checklist' = [checklist EXCEPT
                        !.items[idx] = ItemFailed(@, msg)]
    /\ finished' = Append(finished, [item |-> idx, kind |-> "raise", value |-> msg])
    /\ pc' = "executing"
    /\ UNCHANGED <<auto_approve, current_checklist, built, built_checklist,
                   approval, response, idx, results, outcome, calls,
                   approval_requests, gate_checks, input_reads>>
    /\ UNCHANGED others

\* Variant: a raising callback ends the loop (break in the handler).
ItemRaiseBreak(msg) ==
    /\ pc = "in_item"
    /\ checklist' = [checklist EXCEPT
                        !.items[idx] = ItemFailed(@, msg)]
    /\ results' = Append(results, None)
    /\ finished' = Append(finished, [item |-> idx, kind |-> "raise", value |-> msg])
    /\ idx' = Len(checklist.items) + 1
    /\ pc' = "executing"
    /\ UNCHANGED <<auto_approve, current_checklist, built, built_checklist,
                   approval, response, outcome, calls, approval_requests,
                   gate_checks, input_reads>>
    /\ UNCHANGED others

\* Variant: no handler, the exception leaves execute_with_checklist.
ItemRaisePropagates(msg) ==
    /\ pc = "in_item"
    /\ finished' = Append(finished, [item |-> idx, kind |-> "raise", value |-> msg])
    /\ pc' = "raised"
    /\ UNCHANGED <<auto_approve, checklist, current_checklist, built,
                   built_checklist, approval, response, idx, results, outcome,
                   calls, approval_requests, gate_checks, input_reads>>
    /\ UNCHANGED others

\* Variant: the handler appends nothing to the results list.
ItemRaiseNoPlaceholder(msg) ==
    /\ pc = "in_item"
    /\ checklist' = [checklist EXCEPT
                        !.items[idx] = ItemFailed(@, msg)]
    /\ finished' = Append(finished, [item |-> idx, kind |-> "raise", value |-> msg])
    /\ idx' = idx + 1
    /\ pc' = "executing"
    /\ UNCHANGED <<auto_approve, current_checklist, built, built_checklist,
                   approval, response, results, outcome, calls,
                   approval_requests, gate_checks, input_reads>>
    /\ UNCHANGED others

\* The callback raised Exception(msg) (base.py:197-201).
ItemRaise(msg) ==
    /\ pc = "in_item"
    /\ checklist' = [checklist EXCEPT
                        !.items[idx] = ItemFailed(@, msg)]
    /\ results' = Append(results, None)
    /\ finished' = Append(finished, [item |-> idx, kind |-> "raise", value |-> msg])
    /\ idx' = idx + 1
    /\ pc' = "executing"
    /\ UNCHANGED <<auto_approve, current_checklist, built, built_checklist,
                   approval, response, outcome, calls, approval_requests,
                   gate_checks, input_reads>>
    /\ UNCHANGED others

\* The loop is exhausted: return the outcome (base.py:203-210).
Finish ==
    /\ pc = "executing"
    /\ idx > Len(checklist.items)
    /\ outcome' = DoneOutcome(results)
    /\ pc' = "done"
    /\ UNCHANGED <<auto_approve, checklist, current_checklist, built,
                   built_checklist, approval, response, idx, results, calls,
                   finished, approval_requests, gate_checks, input_reads>>
    /\ UNCHANGED others

Next ==
    \/ /\ pc = "idle" /\ ppc = "idle"
       /\ \E auto \in BOOLEAN, cl \in Checklists : Invoke(auto, cl)
    \/ AutoApproval
    \/ /\ pc = "approval"
       /\ \E typed \in Inputs : InputApproval(typed)
    \/ InterruptApproval
    \/ Gate
    \/ ItemStart
    \/ \E result \in RetVals : ItemReturn(result)
    \/ \E msg \in Msgs : ItemRaise(msg)
    \/ Finish

Spec == Init /\ [][Next]_vars

\* The loop steps and the final return are the program's own and are always
\* taken; an awaited callback ends, by returning or by raising (the item
\* callbacks of the agents return at once, e.g. requirements.py:191-206).
\* Nothing forces the actor at the prompt to answer.
FairSpec ==
    /\ Spec
    /\ WF_vars(Gate)
    /\ WF_vars(ItemStart)
    /\ WF_vars(Finish)
    /\ WF_vars(\E result \in RetVals : ItemReturn(result))
    /\ WF_vars(\E msg \in Msgs : ItemRaise(msg))

(* ------------------------------- helpers ------------------------------ *)
N == Len(built_checklist.items)
Returned == pc \in {"done", "cancelled"}
\* how the callback of the item at position i ended, if it has
Ended(i, kind) == \E k \in 1..Len(finished) : finished[k].item = i /\ finished[k].kind = kind
CallsOf(i) == Cardinality({k \in 1..Len(calls) : calls[k] = i})


(* ----------------------- execute_pipeline: actions -------------------- *)
\* the step the loop is at
Step == pipeline[sidx]
AtStep == ppc = "loop" /\ ~broke /\ sidx <= Len(pipeline)

\* execute_pipeline is called: merge initial_context into self.context,
\* start with empty results (broker.py:38-42).
PipelineStart(p, ic) ==
    /\ ppc = "idle"
    /\ pc = "idle"
    /\ pipeline' = p
    /\ context' = IF ic # EmptyDict THEN Update(context, ic) ELSE context
    /\ presults' = EmptyDict
    /\ sidx' = 1
    /\ ppc' = "loop"
    /\ UNCHANGED <<broke, poutcome, perror, started, ended>>
    /\ UNCHANGED pothers

\* an optional step with a missing dependency: continue (broker.py:46-54)
StepSkip ==
    /\ AtStep
    /\ MissingDeps(Step, presults) # <<>>
    /\ ~Step.required
    /\ sidx' = sidx + 1
    /\ UNCHANGED <<ppc, pipeline, context, presults, broke, poutcome, perror,
                   started, ended>>
    /\ UNCHANGED pothers

\* a required step with a missing dependency: raise ValueError out of
\* execute_pipeline (broker.py:46-52)
StepMissingRaise ==
    /\ AtStep
    /\ MissingDeps(Step, presults) # <<>>
    /\ Step.required
    /\ perror' = "Step '" \o Step.name \o "' missing required dependencies"
    /\ ppc' = "raised"
    /\ UNCHANGED <<pipeline, context, presults, sidx, broke, poutcome,
                   started, ended>>
    /\ UNCHANGED pothers

\* Variant: the handler never breaks.
RecordFailureNoBreak(msg) ==
    /\ presults' = Put(presults, Step.name, StepFailed(msg))
    /\ ended' = Append(ended, [step |-> sidx, kind |-> "raise", value |-> msg])
    /\ broke' = FALSE
    /\ sidx' = sidx + 1
    /\ ppc' = "loop"
    /\ UNCHANGED <<pipeline, context, poutcome, perror>>

\* except Exception: record the failure, break when the step is required
\* (broker.py:61-64)
RecordFailure(msg) ==
    /\ presults' = Put(presults, Step.name, StepFailed(msg))
    /\ ended' = Append(ended, [step |-> sidx, kind |-> "raise", value |-> msg])
    /\ broke' = Step.required
    /\ sidx' = IF Step.required THEN sidx ELSE sidx + 1
    /\ ppc' = "loop"
    /\ UNCHANGED <<pipeline, context, poutcome, perror>>

\* _execute_step raises before it awaits an agent (broker.py:56-58, 101-105,
\* 110-111, 61-64)
StepRefused ==
    /\ AtStep
    /\ MissingDeps(Step, presults) = <<>>
    /\ StepRefusal(Step, presults, context) # None
    /\ started' = Append(started, sidx)
    /\ RecordFailure(StepRefusal(Step, presults, context))
    /\ UNCHANGED pothers

\* Variant: the step is started as a task and the loop moves on without
\* awaiting it.
StepCallNoAwait ==
    /\ AtStep
    /\ MissingDeps(Step, presults) = <<>>
    /\ StepRefusal(Step, presults, context) = None
    /\ started' = Append(started, sidx)
    /\ sidx' = sidx + 1
    /\ UNCHANGED <<ppc, pipeline, context, presults, broke, poutcome, perror,
                   ended>>
    /\ UNCHANGED pothers

\* _execute_step awaits the agent (broker.py:56-58, 89, 108)
StepCall ==
    /\ AtStep
    /\ MissingDeps(Step, presults) = <<>>
    /\ StepRefusal(Step, presults, context) = None
    /\ started' = Append(started, sidx)
    /\ ppc' = "in_step"
    /\ UNCHANGED <<pipeline, context, presults, sidx, broke, poutcome, perror,
                   ended>>
    /\ UNCHANGED pothers

\* Variant: the result is recorded but not put into the context.
StepReturnNoPublish ==
    /\ ppc = "in_step"
    /\ presults' = Put(presults, Step.name, StepSucceeded(AgentOutput(Step)))
    /\ ended' = Append(ended, [step |-> sidx, kind |-> "return",
                               value |-> AgentOutput(Step)])
    /\ sidx' = sidx + 1
    /\ ppc' = "loop"
    /\ UNCHANGED <<pipeline, context, broke, poutcome, perror, started>>
    /\ UNCHANGED pothers

\* the agent returned: record the result, publish it in the context
\* (broker.py:58-60)
StepReturn ==
    /\ ppc = "in_step"
    /\ presults' = Put(presults, Step.name, StepSucceeded(AgentOutput(Step)))
    /\ context' = Put(context, Step.name, AgentOutput(Step))
    /\ ended' = Append(ended, [step |-> sidx, kind |-> "return",
                               value |-> AgentOutput(Step)])
    /\ sidx' = sidx + 1
    /\ ppc' = "loop"
    /\ UNCHANGED <<pipeline, broke, poutcome, perror, started>>
    /\ UNCHANGED pothers

\* the agent raised Exception(msg) (broker.py:58, 61-64)
StepRaise(msg) ==
    /\ ppc = "in_step"
    /\ RecordFailure(msg)
    /\ UNCHANGED started
    /\ UNCHANGED pothers

\* the loop is over or was broken out of: return (broker.py:66-74)
PipelineFinish ==
    /\ ppc = "loop"
    /\ broke \/ sidx > Len(pipeline)
    /\ poutcome' = PipelineOutcome(presults)
    /\ ppc' = "returned"
    /\ UNCHANGED <<pipeline, context, presults, sidx, broke, perror, started,
                   ended>>
    /\ UNCHANGED pothers

PipelineNext ==
    \/ /\ ppc = "idle" /\ pc = "idle"
       /\ \E p \in Pipelines, ic \in InitialContexts : PipelineStart(p, ic)
    \/ StepSkip
    \/ StepMissingRaise
    \/ StepRefused
    \/ StepCall
    \/ StepReturn
    \/ \E msg \in StepErrors : StepRaise(msg)
    \/ PipelineFinish

\* one execute_pipeline run on a fresh ContextBroker
PipelineSpec == Init /\ [][PipelineNext]_vars

\* one run of either entry point
AnySpec == Init /\ [][Next \/ PipelineNext]_vars

(* -------------------------- pipeline helpers -------------------------- *)
P == Len(pipeline)
Executed(i) == \E k \in 1..Len(started) : started[k] = i
StepEnded(i, kind) ==
    \E k \in 1..Len(ended) : ended[k].step = i /\ ended[k].kind = kind
PipelineOver == ppc \in {"returned", "raised"}

(* -------------------- checklist-based wrappers: actions --------------- *)
\* which entry point was called
Wrapper == winput.kind

\* An entry point is called: it builds its context (analyze first filters
\* the selected characteristics, archchar.py:2360) and awaits
\* execute_with_checklist (validation.py:271-281, security.py:318-328,
\* documentation.py:287-300, terraform.py:482-489, requirements.py:225-235,
\* archchar.py:2360-2369).
WrapperCall(args) ==
    /\ wpc = "idle"
    /\ pc = "idle"
    /\ ppc = "idle"
    /\ winput' = args
    /\ selected_chars' = SelectSeq(args.characteristics, IsSelected)
    /\ wpc' = "checklist"
    /\ UNCHANGED <<widx, effects, analyses, log, attempted, wresult>>
    /\ UNCHANGED wothers

\* execute_with_checklist starts with the wrapper's own checklist.
WrapperInvoke(auto) ==
    /\ wpc = "checklist"
    /\ Invoke(auto, WrapperChecklist(winput))

\* The wrapper's execute_checklist_item returns.
WrapperItemReturn ==
    /\ wpc = "checklist"
    /\ ItemReturn(CallbackResult(Wrapper))

\* Variant: the output directory is created before the outcome is looked at.
CancelledCheckAfterMkdir ==
    /\ wpc = "checklist"
    /\ pc \in {"done", "cancelled"}
    /\ effects' = Append(effects, "mkdir")
    /\ IF outcome.cancelled
       THEN /\ wresult' = IF Wrapper = "analyze" THEN ArchCharCancelledResult
                          ELSE DictResult(outcome, {})
            /\ wpc' = "returned"
            /\ UNCHANGED widx
       ELSE /\ wpc' = "work"
            /\ widx' = 1
            /\ UNCHANGED wresult
    /\ UNCHANGED <<winput, selected_chars, analyses, log, attempted>>
    /\ UNCHANGED wothers

\* execute_with_checklist has returned: `if result["cancelled"]` returns the
\* dict as it is (analyze: an ArchCharAnalysisResult built on the spot),
\* otherwise the substantive work begins (validation.py:283-284,
\* security.py:330-331, documentation.py:302-303, terraform.py:491-492,
\* requirements.py:237-238, archchar.py:2371-2379).
CancelledCheck ==
    /\ wpc = "checklist"
    /\ pc \in {"done", "cancelled"}
    /\ IF outcome.cancelled
       THEN /\ wresult' = IF Wrapper = "analyze" THEN ArchCharCancelledResult
                          ELSE DictResult(outcome, {})
            /\ wpc' = "returned"
            /\ UNCHANGED widx
       ELSE /\ wpc' = "work"
            /\ widx' = 1
            /\ UNCHANGED wresult
    /\ UNCHANGED <<winput, selected_chars, effects, analyses, log, attempted>>
    /\ UNCHANGED wothers

\* the dict-returning wrapper is in its substantive work
AtWork == wpc = "work" /\ Wrapper \in DictWrappers /\ widx <= Len(Plan(winput))

\* The next request or file-system operation of the plan is issued and
\* comes back (validation.py:305, security.py:352-369,
\* documentation.py:306-326, terraform.py:495-551, requirements.py:245-266).
WorkStep ==
    /\ AtWork
    /\ effects' = Append(effects, Plan(winput)[widx])
    /\ widx' = widx + 1
    /\ UNCHANGED <<wpc, winput, selected_chars, analyses, log, attempted,
                   wresult>>
    /\ UNCHANGED wothers

\* It raises instead: nothing in the wrapper catches it.
WorkRaise ==
    /\ AtWork
    /\ effects' = Append(effects, Plan(winput)[widx])
    /\ wpc' = "raised"
    /\ UNCHANGED <<winput, selected_chars, widx, analyses, log, attempted,
                   wresult>>
    /\ UNCHANGED wothers

\* The work is done: the wrapper adds its entries to the dict and returns it
\* (validation.py:308-318, security.py:355-372, documentation.py:329-336,
\* terraform.py:554-563, requirements.py:276-285).
WorkReturn ==
    /\ wpc = "work"
    /\ Wrapper \in DictWrappers
    /\ widx > Len(Plan(winput))
    /\ wresult' = DictResult(outcome, AddedKeys(winput))
    /\ wpc' = "returned"
    /\ UNCHANGED <<winput, selected_chars, widx, effects, analyses, log,
                   attempted>>
    /\ UNCHANGED wothers

\* analyze's loop is at a selected characteristic
AtChar == wpc = "work" /\ Wrapper = "analyze" /\ widx <= Len(selected_chars)

\* `if char.name not in tool_map: continue`   (archchar.py:2407-2410)
CharSkip ==
    /\ AtChar
    /\ selected_chars[widx].name \notin ToolMap
    /\ widx' = widx + 1
    /\ UNCHANGED <<wpc, winput, selected_chars, effects, analyses, log,
                   attempted, wresult>>
    /\ UNCHANGED wothers

\* Variant: the handler gives up on the remaining characteristics.
CharAnalysisStops(reply) ==
    /\ AtChar
    /\ selected_chars[widx].name \in ToolMap
    /\ effects' = Append(effects, "llm")
    /\ attempted' = Append(attempted,
                         [pos |-> widx, raised |-> reply.raised,
                          ok |-> TryAnalysis(selected_chars[widx], reply).ok])
    /\ LET r == TryAnalysis(selected_chars[widx], reply)
       IN  IF r.ok
           THEN /\ analyses' = Append(analyses, selected_chars[widx].name)
                /\ widx' = widx + 1
                /\ UNCHANGED log
           ELSE /\ log' = Append(log, Warning(selected_chars[widx], r.error))
                /\ widx' = Len(selected_chars) + 1
                /\ UNCHANGED analyses
    /\ UNCHANGED <<wpc, winput, selected_chars, wresult>>
    /\ UNCHANGED wothers

\* The try body for a characteristic tool_map knows, agent.run ending with
\* `reply`: on success the analysis is appended, in the handler a warning is
\* printed; either way the loop goes on (archchar.py:2412-2455).
CharAnalysis(reply) ==
    /\ AtChar
    /\ selected_chars[widx].name \in ToolMap
    /\ effects' = Append(effects, "llm")
    /\ attempted' = Append(attempted,
                         [pos |-> widx, raised |-> reply.raised,
                          ok |-> TryAnalysis(selected_chars[widx], reply).ok])
    /\ LET r == TryAnalysis(selected_chars[widx], reply)
       IN  IF r.ok
           THEN /\ analyses' = Append(analyses, selected_chars[widx].name)
                /\ UNCHANGED log
           ELSE /\ log' = Append(log, Warning(selected_chars[widx], r.error))
                /\ UNCHANGED analyses
    /\ widx' = widx + 1
    /\ UNCHANGED <<wpc, winput, selected_chars, wresult>>
    /\ UNCHANGED wothers

\* After the loop: the aggregate result, characteristics_analyzed being
\* len(analyses) (archchar.py:2457-2563).
AnalyzeReturn ==
    /\ wpc = "work"
    /\ Wrapper = "analyze"
    /\ widx > Len(selected_chars)
    /\ wresult' = ArchCharDoneResult(analyses)
    /\ wpc' = "returned"
    /\ UNCHANGED <<winput, selected_chars, widx, effects, analyses, log,
                   attempted>>
    /\ UNCHANGED wothers

WrapperNext ==
    \/ /\ wpc = "idle" /\ pc = "idle" /\ ppc = "idle"
       /\ \E args \in WrapperInputs : WrapperCall(args)
    \/ \E auto \in BOOLEAN : WrapperInvoke(auto)
    \/ AutoApproval
    \/ /\ pc = "approval"
       /\ \E typed \in Answers : InputApproval(typed)
    \/ InterruptApproval
    \/ Gate
    \/ ItemStart
    \/ WrapperItemReturn
    \/ Finish
    \/ CancelledCheck
    \/ WorkStep
    \/ WorkRaise
    \/ WorkReturn
    \/ CharSkip
    \/ \E reply \in LlmReplies : CharAnalysis(reply)
    \/ AnalyzeReturn

\* one call of one checklist-based entry point on a fresh agent
WrapperSpec == Init /\ [][WrapperNext]_vars

(* --------------------------- wrapper helpers -------------------------- *)
WrapperOver == wpc \in {"returned", "raised"}
\* positions of selected_chars whose name tool_map knows, in order
RECURSIVE SupportedFrom(_, _)
SupportedFrom(cs, i) ==
    IF i > Len(cs) THEN <<>>
    ELSE (IF cs[i].name \in ToolMap THEN <<i>> ELSE <<>>)
         \o SupportedFrom(cs, i + 1)
Supported(cs) == SupportedFrom(cs, 1)

(* ------------------------ check_structure: actions -------------------- *)
\* ValidationDependencies(model, framework): the model the tools will read
\* (validation.py:18-30, 287)
ValidationDeps(model) ==
    /\ vpc = "idle"
    /\ c4model' = model
    /\ vpc' = "deps"
    /\ UNCHANGED structure
    /\ UNCHANGED sothers

\* the language model calls the check_structure tool (validation.py:78-120)
CheckStructureCall ==
    /\ vpc = "deps"
    /\ structure' = CheckStructure(c4model)
    /\ vpc' = "returned"
    /\ UNCHANGED c4model
    /\ UNCHANGED sothers

StructureNext ==
    \/ /\ vpc = "idle"
       /\ \E model \in Models : ValidationDeps(model)
    \/ CheckStructureCall

\* one call of check_structure on one model
StructureSpec == Init /\ [][StructureNext]_vars

(* -------------------- overlapping invocations: actions ---------------- *)
\* Variant: a later invocation leaves a current_checklist that is already
\* set alone.
SecondInvokeKeepsCurrent(auto, cl) ==
    /\ second.pc = "idle"
    /\ \/ pc = "approval" /\ ~auto_approve
       \/ pc = "in_item"
    /\ second' = [NoInvocation EXCEPT !.pc = "approval", !.auto_approve = auto,
                     !.object = built + 1, !.checklist = cl,
                     !.built_checklist = cl]
    /\ built' = built + 1
    /\ current_checklist' =
          IF current_checklist = 0 THEN built + 1 ELSE current_checklist
    /\ UNCHANGED <<pc, auto_approve, checklist, built_checklist, approval,
                   response, idx, results, outcome, calls, finished,
                   approval_requests, gate_checks, input_reads>>
    /\ UNCHANGED <<pvars, wvars, svars, bvars, progress>>

\* execute_with_checklist is called again on the agent while the first
\* invocation waits at the prompt or in an item callback: it builds its own
\* checklist and stores it in self.current_checklist (base.py:164-172).
SecondInvoke(auto, cl) ==
    /\ second.pc = "idle"
    /\ \/ pc = "approval" /\ ~auto_approve
       \/ pc = "in_item"
    /\ second' = [NoInvocation EXCEPT !.pc = "approval", !.auto_approve = auto,
                     !.object = built + 1, !.checklist = cl,
                     !.built_checklist = cl]
    /\ built' = built + 1
    /\ current_checklist' = built + 1
    /\ UNCHANGED <<pc, auto_approve, checklist, built_checklist, approval,
                   response, idx, results, outcome, calls, finished,
                   approval_requests, gate_checks, input_reads>>
    /\ UNCHANGED <<pvars, wvars, svars, bvars, progress>>

\* the second invocation's request_approval returns and its decision is
\* checked (base.py:172-184)
SecondApproval(answer) ==
    /\ second.pc = "approval"
    /\ LET r == RequestApproval(second.checklist, second.auto_approve, answer)
       IN  second' =
              IF ~r.response.approved
              THEN [second EXCEPT !.checklist = r.checklist,
                                  !.approval = r.response,
                                  !.outcome = CancelledOutcome(r.response.feedback),
                                  !.pc = "cancelled"]
              ELSE [second EXCEPT !.checklist = r.checklist,
                                  !.approval = r.response,
                                  !.results = <<>>, !.idx = 1,
                                  !.pc = "executing"]
    /\ UNCHANGED <<cvars, pvars, wvars, svars, bvars, progress>>

\* the second invocation's loop takes its next item (base.py:186-190)
SecondItemStart ==
    /\ second.pc = "executing"
    /\ second.idx <= Len(second.checklist.items)
    /\ second' = [second EXCEPT !.calls = Append(@, second.idx),
                                !.pc = "in_item"]
    /\ UNCHANGED <<cvars, pvars, wvars, svars, bvars, progress>>

\* the callback of the second invocation returned (base.py:191-195)
SecondItemReturn(result) ==
    /\ second.pc = "in_item"
    /\ second' = [second EXCEPT
                     !.checklist.items[second.idx] = ItemSucceeded(@, result),
                     !.results = Append(@, result),
                     !.idx = @ + 1,
                     !.pc = "executing"]
    /\ UNCHANGED <<cvars, pvars, wvars, svars, bvars, progress>>

\* the callback of the second invocation raised (base.py:197-201)
SecondItemRaise(msg) ==
    /\ second.pc = "in_item"
    /\ second' = [second EXCEPT
                     !.checklist.items[second.idx] = ItemFailed(@, msg),
                     !.results = Append(@, None),
                     !.idx = @ + 1,
                     !.pc = "executing"]
    /\ UNCHANGED <<cvars, pvars, wvars, svars, bvars, progress>>

\* the second invocation returns (base.py:203-210)
SecondFinish ==
    /\ second.pc = "executing"
    /\ second.idx > Len(second.checklist.items)
    /\ second' = [second EXCEPT !.outcome = DoneOutcome(second.results),
                                !.pc = "done"]
    /\ UNCHANGED <<cvars, pvars, wvars, svars, bvars, progress>>

\* update_progress(item_id, result), called from the item callback of
\* invocation `caller` (base.py:212-226)
UpdateProgress(caller, item_id, result) ==
    /\ Len(progress) < MaxUpdates
    /\ \/ caller = 1 /\ pc = "in_item"
       \/ caller = 2 /\ second.pc = "in_item"
    /\ progress' = Append(progress,
          [caller |-> caller, target |-> current_checklist, latest |-> built,
           item_id |-> item_id, result |-> result])
    /\ IF current_checklist = 0
       THEN UNCHANGED <<checklist, second>>
       ELSE IF current_checklist = second.object
            THEN /\ second' = [second EXCEPT !.checklist.items =
                                  MarkProgress(@, 1, item_id, result)]
                 /\ UNCHANGED checklist
            ELSE /\ checklist' = [checklist EXCEPT !.items =
                                     MarkProgress(@, 1, item_id, result)]
                 /\ UNCHANGED second
    /\ UNCHANGED <<pc, auto_approve, current_checklist, built,
                   built_checklist, approval, response, idx, results, outcome,
                   calls, finished, approval_requests, gate_checks,
                   input_reads>>
    /\ UNCHANGED <<pvars, wvars, svars, bvars>>

OverlapNext ==
    \/ /\ pc = "idle"
       /\ \E auto \in BOOLEAN, cl \in OverlapChecklists : Invoke(auto, cl)
    \/ AutoApproval
    \/ /\ pc = "approval"
       /\ \E typed \in Answers : InputApproval(typed)
    \/ InterruptApproval
    \/ Gate
    \/ ItemStart
    \/ \E result \in OverlapRetVals : ItemReturn(result)
    \/ \E msg \in OverlapMsgs : ItemRaise(msg)
    \/ Finish
    \/ /\ second.pc = "idle"
       /\ \E auto \in BOOLEAN, cl \in OverlapChecklists : SecondInvoke(auto, cl)
    \/ /\ second.pc = "approval"
       /\ \E answer \in Answers \cup {NoLine} : SecondApproval(answer)
    \/ SecondItemStart
    \/ \E result \in OverlapRetVals : SecondItemReturn(result)
    \/ \E msg \in OverlapMsgs : SecondItemRaise(msg)
    \/ SecondFinish
    \/ \E caller \in {1, 2}, item_id \in ProgressIds, result \in ProgressResults :
          UpdateProgress(caller, item_id, result)

\* two overlapping invocations on one agent
OverlapSpec == Init /\ [][OverlapNext]_vars

(* -------------------- repeated pipeline runs: actions ----------------- *)
\* Variant: every call starts from an empty context.
BrokerStartFresh(p, ic) ==
    /\ ppc \in {"idle", "returned", "raised"}
    /\ Len(starts) < MaxRuns
    /\ pipeline' = p
    /\ context' = ic
    /\ presults' = EmptyDict
    /\ sidx' = 1
    /\ broke' = FALSE
    /\ poutcome' = NoPipelineOutcome
    /\ perror' = None
    /\ ppc' = "loop"
    /\ starts' = Append(starts, [at |-> Len(ended), ic |-> ic])
    /\ UNCHANGED <<started, ended>>
    /\ UNCHANGED <<cvars, wvars, svars, ovars>>

\* execute_pipeline is called on a broker that is new or whose earlier call
\* has returned or raised: self.context is what the earlier calls left,
\* updated by initial_context; results and the loop start afresh
\* (broker.py:24, 38-44).
BrokerStart(p, ic) ==
    /\ ppc \in {"idle", "returned", "raised"}
    /\ Len(starts) < MaxRuns
    /\ pipeline' = p
    /\ context' = IF ic # EmptyDict THEN Update(context, ic) ELSE context
    /\ presults' = EmptyDict
    /\ sidx' = 1
    /\ broke' = FALSE
    /\ poutcome' = NoPipelineOutcome
    /\ perror' = None
    /\ ppc' = "loop"
    /\ starts' = Append(starts, [at |-> Len(ended), ic |-> ic])
    /\ UNCHANGED <<started, ended>>
    /\ UNCHANGED <<cvars, wvars, svars, ovars>>

BrokerNext ==
    \/ /\ ppc \in {"idle", "returned", "raised"}
       /\ \E p \in BrokerPipelines, ic \in InitialContexts : BrokerStart(p, ic)
    \/ StepSkip
    \/ StepMissingRaise
    \/ StepRefused
    \/ StepCall
    \/ StepReturn
    \/ \E msg \in StepErrors : StepRaise(msg)
    \/ PipelineFinish

\* up to MaxRuns execute_pipeline calls, one after the other, on one broker
BrokerSpec == Init /\ [][BrokerNext]_vars

(* ======================= properties of the workflow =================== *)

\* C1: when the approval gate returns approved=false, no item callback is
\* invoked and the run returns success=false, cancelled=true with the
\* approval's feedback and no results; every item's completed flag and
\* result are as when the checklist was built.
C1_DeniedRunsNothing ==
    /\ []((pc \notin {"idle", "approval"} /\ ~approval.approved) =>
            /\ pc \in {"gate", "cancelled"}
            /\ calls = <<>>
            /\ results = <<>>
            /\ Len(checklist.items) = N
            /\ \A i \in 1..N :
                  /\ checklist.items[i].completed = built_checklist.items[i].completed
                  /\ checklist.items[i].result = built_checklist.items[i].result
            /\ pc = "cancelled" =>
                  /\ outcome.keys = {"success", "cancelled", "checklist", "feedback"}
                  /\ outcome.success = FALSE
                  /\ outcome.cancelled = TRUE
                  /\ outcome.feedback = approval.feedback
                  /\ outcome.feedback # None)
    /\ [][(pc = "gate" /\ ~approval.approved) => pc' = "cancelled"]_vars

C1_Witness ==
    /\ pc = "cancelled"
    /\ N >= 2
    /\ approval.feedback = "User cancelled"

\* C2: in an approved run in which the callback of item k raises, the
\* callback of every other item (before and after k) is still invoked; each
\* other item whose callback returns ends with completed=true and the
\* returned string as result, and item k's result is "Error: " followed by
\* the exception message.
C2_FailureIsolation ==
    pc = "done" =>
        \A f \in 1..Len(finished) :
            finished[f].kind = "raise" =>
                LET k == finished[f].item
                IN  /\ checklist.items[k].result = "Error: " \o finished[f].value
                    /\ \A i \in (1..N) \ {k} :
                          /\ CallsOf(i) = 1
                          /\ \A g \in 1..Len(finished) :
                                (finished[g].item = i /\ finished[g].kind = "return") =>
                                    /\ checklist.items[i].completed = TRUE
                                    /\ checklist.items[i].result = finished[g].value
                    /\ (\A i \in (1..N) \ {k} : ~Ended(i, "raise")) =>
                          \A i \in (1..N) \ {k} :
                              /\ checklist.items[i].completed = TRUE
                              /\ checklist.items[i].result \in RetVals

C2_Witness ==
    /\ pc = "done"
    /\ N >= 3
    /\ Ended(1, "return") /\ Ended(2, "raise") /\ Ended(3, "return")

\* C3 as stated: after any approved run every item of the returned checklist
\* has completed=true, also the items whose callback raised.
C3_AllCompletedAfterApprovedRun ==
    pc = "done" => \A i \in 1..N : checklist.items[i].completed = TRUE

\* C3 (amended): in an approved run an item whose callback raises keeps
\* completed=false (only its result is set); after the run an item has
\* completed=true exactly when its callback returned.
C3_CompletedIffReturned ==
    pc = "done" =>
        \A i \in 1..N :
            /\ checklist.items[i].completed = Ended(i, "return")
            /\ Ended(i, "raise") =>
                  checklist.items[i].completed = built_checklist.items[i].completed

C3_Witness ==
    /\ pc = "done"
    /\ \E i, j \in 1..N :
          /\ Ended(i, "raise") /\ ~checklist.items[i].completed
          /\ Ended(j, "return") /\ checklist.items[j].completed

\* C4: every approved run reaches the end of the checklist and returns
\* success=true, cancelled=false, whatever subset of the callbacks raise;
\* a callback's exception never leaves execute_with_checklist.
C4_ApprovedRunReturnsSuccess ==
    /\ [](pc \in {"idle", "approval", "gate", "executing", "in_item", "done",
                  "cancelled"})
    /\ [](pc = "done" =>
            /\ outcome.keys = {"success", "cancelled", "checklist", "results"}
            /\ outcome.success = TRUE
            /\ outcome.cancelled = FALSE
            /\ Len(finished) = N)
    /\ [][(pc = "in_item" /\ finished' # finished) => pc' = "executing"]_vars
    /\ ((pc = "gate" /\ approval.approved) ~> (pc = "done"))

C4_Witness ==
    /\ pc = "done"
    /\ N >= 2
    /\ \A i \in 1..N : Ended(i, "raise")
    /\ outcome.success = TRUE

\* C5: request_approval with auto_approve=true returns approved=true without
\* reading interactive input, and sets the checklist's approved field to
\* true and approved_by to the automatic-approval sentinel.
C5_AutoApprove ==
    (auto_approve /\ pc \notin {"idle", "approval"}) =>
        /\ approval.approved = TRUE
        /\ input_reads = 0
        /\ response = <<>>
        /\ checklist.approved = TRUE
        /\ checklist.approved_by = "auto-approved"
        /\ pc # "cancelled"

C5_Witness ==
    /\ auto_approve
    /\ pc = "executing"
    /\ N >= 1
    /\ checklist.approved_by = "auto-approved"

\* The lines that are an affirmative token ("y" or "yes" in any letter
\* case) between any number of blanks.
Blanks(n) == [i \in 1..n |-> " "]

AffirmativeTokens ==
    {<<a>> : a \in {"y", "Y"}}
        \cup {<<a, b, c>> : a \in {"y", "Y"}, b \in {"e", "E"}, c \in {"s", "S"}}

AffirmativeLines ==
    {Blanks(l) \o t \o Blanks(r) :
        l \in 0..MaxInputLen, r \in 0..MaxInputLen, t \in AffirmativeTokens}

\* C6: request_approval with auto_approve=false returns approved=true only
\* when the typed line is "y" or "yes" after trimming and lower-casing; any
\* other line returns approved=false with feedback "User cancelled"; an
\* interrupt or end-of-input returns approved=false with the different
\* feedback "Interrupted by user"; none of these paths raises (each returns
\* an ApprovalResponse to execute_with_checklist).
C6_InteractiveApproval ==
    /\ (~auto_approve /\ pc = "gate") =>
          /\ input_reads = 1
          /\ response \in Inputs \cup {NoLine}
          /\ approval.approved => response \in AffirmativeLines
          /\ (response \in Inputs /\ response \notin AffirmativeLines) =>
                approval = ApprovalResponse(FALSE, "User cancelled")
          /\ response = NoLine =>
                approval = ApprovalResponse(FALSE, "Interrupted by user")
    /\ (~auto_approve /\ pc \notin {"idle", "approval"}) =>
          /\ pc \in {"gate", "executing", "in_item", "done", "cancelled"}
          /\ approval \in {ApprovalResponse(TRUE, "User approval"),
                           ApprovalResponse(FALSE, "User cancelled"),
                           ApprovalResponse(FALSE, "Interrupted by user")}

C6_Witness ==
    /\ ~auto_approve
    /\ pc = "gate"
    /\ response = <<" ", "Y">>
    /\ approval = ApprovalResponse(TRUE, "User approval")

\* C7: each invocation of execute_with_checklist issues exactly one approval
\* request, on every path and whatever the number of items and of failing
\* callbacks.
C7_OneApprovalRequest ==
    /\ pc = "idle" => approval_requests = 0
    /\ pc # "idle" => approval_requests = 1

C7_Witness ==
    /\ pc = "done"
    /\ N >= 2
    /\ \E i \in 1..N : Ended(i, "raise")
    /\ approval_requests = 1

\* C8: within one invocation the callback is invoked at most once per item:
\* exactly once per item in an approved run that returned, zero times in a
\* run that was not approved; a failed item is never retried.
C8_AtMostOncePerItem ==
    /\ \A k \in 1..Len(calls) : calls[k] \in 1..N
    /\ \A i \in 1..N : CallsOf(i) <= 1
    /\ pc = "done" => \A i \in 1..N : CallsOf(i) = 1
    /\ pc = "cancelled" => calls = <<>>

C8_Witness ==
    /\ pc = "done"
    /\ N >= 2
    /\ Ended(1, "raise")
    /\ CallsOf(1) = 1

\* C9: in an approved run the callbacks are invoked strictly in list order
\* and every item is run whatever its dependencies: also when an item it
\* depends on failed, has not run yet or comes later in the list.
C9_ListOrderIgnoresDependencies ==
    /\ \A k \in 1..Len(calls) : calls[k] = k
    /\ pc = "in_item" => (calls # <<>> /\ calls[Len(calls)] = idx)
    /\ pc = "done" => Len(calls) = N

C9_Witness ==
    /\ pc = "done"
    /\ N >= 3
    /\ checklist.items[1].dependencies = <<"2">>
    /\ checklist.items[2].dependencies = <<"1">>
    /\ checklist.items[3].dependencies = <<>>
    /\ Ended(1, "raise")
    /\ Ended(2, "return")
    /\ calls = <<1, 2, 3>>

\* C10: no callback starts before request_approval has returned approved;
\* the decision is checked once, before the first item, and a run in which
\* an item has started never returns cancelled.
C10_GateBeforeItems ==
    /\ gate_checks <= 1
    /\ calls # <<>> =>
          /\ approval.approved
          /\ gate_checks = 1
          /\ pc \in {"in_item", "executing", "done"}
          /\ outcome.cancelled = FALSE
    /\ pc = "cancelled" => (calls = <<>> /\ ~approval.approved /\ outcome.cancelled)

C10_Witness ==
    /\ pc = "in_item"
    /\ calls = <<1>>
    /\ ~auto_approve
    /\ approval.approved

(* ======================= properties of the pipeline =================== *)
\* the step the loop is at names a prerequisite without an entry in results
UnmetPrerequisite ==
    \E d \in 1..Len(Step.depends_on) : Step.depends_on[d] \notin DOMAIN presults

\* C11: steps are considered in declared order, and a step with a declared
\* prerequisite that has produced no result in this run is not executed: a
\* required one stops the pipeline there, no later step is executed; an
\* optional one is passed over, the loop goes on to the next step and the
\* skipped step gets no entry in the results.
C11_UnmetPrerequisiteNotExecuted ==
    /\ [](\A k \in 1..Len(started) : \A m \in 1..Len(started) :
             k < m => started[k] < started[m])
    /\ [](\A i \in 1..P :
             (i < sidx /\ ~Executed(i)) => StepName(i) \notin DOMAIN presults)
    /\ [](ppc = "raised" =>
             /\ ~Executed(sidx)
             /\ \A j \in 1..P : j > sidx => ~Executed(j))
    /\ [][(AtStep /\ UnmetPrerequisite) =>
             /\ started' = started
             /\ presults' = presults
             /\ IF Step.required
                THEN ppc' = "raised" /\ sidx' = sidx
                ELSE ppc' = "loop" /\ sidx' = sidx + 1 /\ ~broke']_vars
    /\ [][ppc = "raised" => ppc' = "raised"]_vars

C11_Witness ==
    /\ ppc = "returned"
    /\ P = 2
    /\ pipeline[1].depends_on = <<"s2">>
    /\ ~pipeline[1].required
    /\ ~Executed(1) /\ Executed(2)
    /\ DOMAIN presults = {"s2"}

\* C12 as stated: a step is executed only when every step named in its
\* depends_on succeeded in this run; when a required step is held back for
\* that reason the pipeline returns with aggregate success false.
C12_DependencyGating ==
    /\ [][started' # started =>
             \A d \in 1..Len(Step.depends_on) :
                 /\ Step.depends_on[d] \in DOMAIN presults
                 /\ presults[Step.depends_on[d]].success]_vars
    /\ [](ppc = "returned" =>
             ((\E i \in 1..P :
                  /\ pipeline[i].required
                  /\ \E d \in 1..Len(pipeline[i].depends_on) :
                        \/ pipeline[i].depends_on[d] \notin DOMAIN presults
                        \/ ~presults[pipeline[i].depends_on[d]].success)
              => poutcome.success = FALSE))

\* C13: an exception raised while a step executes is recorded under the
\* step's name as success=false with the error message; after a required
\* step's failure no later step is executed and the aggregate success is
\* false; after an optional step's failure the loop goes on to the next
\* step.
C13_StepFailureRecorded ==
    \A k \in 1..Len(ended) :
        ended[k].kind = "raise" =>
            LET i == ended[k].step
            IN  /\ StepName(i) \in DOMAIN presults
                /\ presults[StepName(i)] =
                      [success |-> FALSE, data |-> None, error |-> ended[k].value]
                /\ pipeline[i].required =>
                      /\ \A j \in 1..P : j > i => ~Executed(j)
                      /\ ppc \in {"loop", "returned"}
                      /\ ppc = "loop" => (broke /\ sidx = i)
                      /\ ppc = "returned" =>
                            (poutcome.returned /\ poutcome.success = FALSE)
                /\ ~pipeline[i].required => sidx > i

C13_Witness ==
    /\ ppc = "returned"
    /\ P = 2
    /\ pipeline[1].required
    /\ StepEnded(1, "raise")
    /\ presults["s1"].error = "model request failed"
    /\ ~Executed(2)
    /\ poutcome.success = FALSE

\* C14 as stated: execute_pipeline never raises; every run ends by
\* returning the outcome object.
C14_AlwaysReturnsOutcome ==
    /\ ppc # "raised"
    /\ PipelineOver => poutcome.returned

\* C15: the aggregate success is true only if every step recorded in the
\* results succeeded; one recorded failure, of a required or an optional
\* step, makes it false.
C15_AggregateSuccess ==
    ppc = "returned" =>
        /\ poutcome.returned
        /\ poutcome.results = presults
        /\ poutcome.success = (\A k \in 1..Len(ended) : ended[k].kind = "return")
        /\ \A n \in DOMAIN poutcome.results :
              poutcome.results[n].success = FALSE => poutcome.success = FALSE

C15_Witness ==
    /\ ppc = "returned"
    /\ P = 2
    /\ ~pipeline[1].required
    /\ StepEnded(1, "raise")
    /\ StepEnded(2, "return")
    /\ poutcome.success = FALSE

\* C16: a step that executes successfully has its output recorded in the
\* results under its name and stored in the shared context under the same
\* name before the next step starts; a step that fails or is skipped adds
\* nothing to the context and leaves its entries unchanged.
C16_ContextPublication ==
    /\ [](\A k \in 1..Len(ended) :
             ended[k].kind = "return" =>
                 /\ StepName(ended[k].step) \in DOMAIN presults
                 /\ presults[StepName(ended[k].step)] =
                       [success |-> TRUE, data |-> ended[k].value, error |-> None]
                 /\ StepName(ended[k].step) \in DOMAIN context
                 /\ context[StepName(ended[k].step)] = ended[k].value)
    /\ [][(ppc # "idle" /\ context' # context) =>
             /\ Len(ended') = Len(ended) + 1
             /\ ended'[Len(ended')].kind = "return"
             /\ \A key \in DOMAIN context :
                   key # Step.name =>
                       (key \in DOMAIN context' /\ context'[key] = context[key])
             /\ DOMAIN context' = DOMAIN context \cup {Step.name}]_vars

C16_Witness ==
    /\ ppc = "loop"
    /\ P = 2
    /\ sidx = 2
    /\ started = <<1>>
    /\ StepEnded(1, "return")
    /\ presults["s1"].data = "DiscoveryResult:new"
    /\ context["s1"] = "DiscoveryResult:new"

(* ======================= properties of the wrappers =================== *)

\* C17: every checklist-based entry point returns a result that says
\* whether the run was cancelled, when it was and when it was not: the
\* result has a cancelled entry, and its value is that of the run.
C17_ResultCarriesCancelled ==
    wpc = "returned" =>
        /\ "cancelled" \in wresult.keys
        /\ wresult.cancelled = outcome.cancelled

\* C18: a request to the language model, a directory creation or a file
\* write (any operation of the substantive work) is issued only once
\* execute_with_checklist has returned a non-cancelled outcome and the
\* wrapper has looked at it; a wrapper whose approval was denied returns
\* having issued none.
C18_NoWorkUnlessApproved ==
    /\ effects # <<>> =>
          /\ pc = "done"
          /\ ~outcome.cancelled
          /\ wpc \in {"work", "returned", "raised"}
    /\ (wpc = "returned" /\ pc = "cancelled") =>
          /\ effects = <<>>
          /\ attempted = <<>>

C18_Witness ==
    /\ wpc = "returned"
    /\ pc = "cancelled"
    /\ Wrapper = "generate_terraform"
    /\ approval.feedback = "User cancelled"
    /\ effects = <<>>

\* the try bodies that ended in the handler
Failed == SelectSeq(attempted, LAMBDA a : ~a.ok)
\* positions before i of the selected characteristics tool_map knows
SupportedBefore(i) ==
    SelectSeq(Supported(selected_chars), LAMBDA k : k < i)

\* C19: in analyze, a selected characteristic whose analysis fails gets a
\* warning printed and no entry in analyses, and the loop goes on: the
\* characteristics tool_map knows are tried one after the other in list
\* order, all of them by the time analyze returns; analyze never raises;
\* characteristics_analyzed is the number of tried characteristics whose
\* analysis did not fail.
C19_FailedCharacteristicSkipped ==
    /\ Wrapper = "analyze" => wpc # "raised"
    /\ (Wrapper = "analyze" /\ wpc \in {"work", "returned"} /\ ~outcome.cancelled) =>
        /\ [k \in 1..Len(attempted) |-> attempted[k].pos]
              = SupportedBefore(IF wpc = "work" THEN widx
                                ELSE Len(selected_chars) + 1)
        /\ Len(log) = Len(Failed)
        /\ \A k \in 1..Len(Failed) :
              \E reply \in LlmReplies :
                 log[k] = Warning(selected_chars[Failed[k].pos],
                             TryAnalysis(selected_chars[Failed[k].pos], reply).error)
        /\ Len(analyses) = Len(attempted) - Len(Failed)
        /\ wpc = "returned" =>
              /\ "characteristics_analyzed" \in wresult.keys
              /\ wresult.characteristics_analyzed
                    = Len(attempted) - Len(Failed)

C19_Witness ==
    /\ Wrapper = "analyze"
    /\ wpc = "returned"
    /\ Len(winput.characteristics) = 3
    /\ Len(selected_chars) = 3
    /\ selected_chars[1].name = "Availability"
    /\ selected_chars[2].name = "Caching"
    /\ selected_chars[3].name = "Security"
    /\ Len(attempted) = 2
    /\ ~attempted[1].ok
    /\ attempted[2].pos = 3
    /\ Len(log) = 2
    /\ wresult.characteristics_analyzed = 0

(* ========================= one thing at a time ======================== *)

\* C20: within one execute_with_checklist run at most one item callback is
\* in progress, the callbacks start in list order and each has returned or
\* raised before the next starts; within one execute_pipeline run at most
\* one step is in progress, the steps start in list order and each has
\* finished before the next starts.
C20_OneAtATime ==
    /\ Len(calls) - Len(finished) = (IF pc = "in_item" THEN 1 ELSE 0)
    /\ \A k \in 1..Len(finished) : finished[k].item = calls[k]
    /\ \A k \in 1..Len(calls) : calls[k] = k
    /\ Len(started) - Len(ended) = (IF ppc = "in_step" THEN 1 ELSE 0)
    /\ \A k \in 1..Len(ended) : ended[k].step = started[k]
    /\ \A k, l \in 1..Len(started) : k < l => started[k] < started[l]

C20_Witness ==
    /\ pc = "in_item"
    /\ Len(calls) = 3
    /\ Len(finished) = 2
    /\ finished[1].kind = "raise"

(* ================= further properties of the workflow ================= *)

\* C21: after an approved run the results list has one entry per checklist
\* item, in checklist order: entry i is the string item i's callback
\* returned, which is also item i's result, when it returned, and None when
\* it raised.
C21_ResultsPerItem ==
    pc = "done" =>
        /\ outcome.results = results
        /\ Len(results) = N
        /\ Len(finished) = N
        /\ \A i \in 1..N :
              /\ finished[i].item = i
              /\ finished[i].kind = "return" =>
                    /\ results[i] = finished[i].value
                    /\ results[i] = checklist.items[i].result
              /\ finished[i].kind = "raise" => results[i] = None

C21_Witness ==
    /\ pc = "done"
    /\ N = 3
    /\ results[1] = "Executed: task"
    /\ results[2] = None
    /\ results[3] = "Completed: task"

\* C22: the run leaves the number and order of the items and each item's
\* id, description, estimated_duration and dependencies as create_checklist
\* built them, on the cancelled path and on the approved path, at every
\* point of the run.
C22_OnlyProgressFieldsChange ==
    pc # "idle" =>
        /\ Len(checklist.items) = Len(built_checklist.items)
        /\ checklist.requires_approval = built_checklist.requires_approval
        /\ \A i \in 1..N :
              /\ checklist.items[i].id = built_checklist.items[i].id
              /\ checklist.items[i].description
                    = built_checklist.items[i].description
              /\ checklist.items[i].estimated_duration
                    = built_checklist.items[i].estimated_duration
              /\ checklist.items[i].dependencies
                    = built_checklist.items[i].dependencies

C22_Witness ==
    /\ pc = "done"
    /\ N = 3
    /\ checklist.items[1].completed
    /\ checklist.items[2].result = "Error: boom"
    /\ checklist.items[3].dependencies = <<"2">>
    /\ checklist # built_checklist

\* C25: when execute_with_checklist has returned, the checklist's approved
\* is true exactly when the outcome is not cancelled; approved_by is set
\* exactly when approved is true, to "auto-approved" under auto_approve and
\* to "user" otherwise; after an interrupted prompt the checklist is as it
\* was built; approved_at is never written.
C25_ApprovalFields ==
    /\ checklist.approved_at = None
    /\ Returned =>
          /\ checklist.approved = ~outcome.cancelled
          /\ (checklist.approved_by # None) = checklist.approved
          /\ checklist.approved =>
                checklist.approved_by
                    = (IF auto_approve THEN "auto-approved" ELSE "user")
    /\ (pc \in {"gate", "cancelled"} /\ approval.feedback = "Interrupted by user") =>
          checklist = built_checklist

C25_Witness ==
    /\ pc = "cancelled"
    /\ ~auto_approve
    /\ approval.feedback = "User cancelled"
    /\ checklist.approved_by = None
    /\ N >= 1

(* ================== properties of the wrappers' checklists ============ *)

\* position of the item with id `id` in the checklist that was built
Positions(id) == {j \in 1..N : built_checklist.items[j].id = id}
\* the ids item i lists as dependencies
DepsOf(i) ==
    {built_checklist.items[i].dependencies[d] :
        d \in 1..Len(built_checklist.items[i].dependencies)}

\* C23: in the checklist any wrapper's create_checklist builds, for any
\* context, the item ids are pairwise distinct and every id in an item's
\* dependencies is the id of an item of that checklist.
C23_IdsDistinctDepsResolve ==
    (wpc # "idle" /\ pc # "idle") =>
        /\ \A i, j \in 1..N :
              built_checklist.items[i].id = built_checklist.items[j].id => i = j
        /\ \A i \in 1..N : \A d \in DepsOf(i) : Positions(d) # {}

C23_Witness ==
    /\ Wrapper = "generate_documentation"
    /\ winput.flags = {"plantuml", "adr"}
    /\ pc = "approval"
    /\ N = 7
    /\ built_checklist.items[5].id = "5"
    /\ built_checklist.items[7].id = "7"

\* C30: in the checklist any wrapper's create_checklist builds, every
\* dependency of an item is the id of an item strictly earlier in the list;
\* so when the executor, which goes by list order alone, starts an item's
\* callback, the callback of every item it depends on has already ended.
C30_DependenciesPointBack ==
    (wpc # "idle" /\ pc # "idle") =>
        /\ \A i \in 1..N : \A d \in DepsOf(i) :
              \E j \in Positions(d) : j < i
        /\ \A k \in 1..Len(calls) : \A d \in DepsOf(calls[k]) :
              \E f \in 1..Len(finished) :
                 /\ f < k
                 /\ finished[f].item \in Positions(d)

C30_Witness ==
    /\ Wrapper = "generate_terraform"
    /\ pc = "in_item"
    /\ calls[Len(calls)] = 9
    /\ Len(finished) = 8
    /\ DepsOf(9) = {"2", "3", "4", "5", "6", "7", "8"}

(* ================= further properties of analyze and the pipeline ===== *)

\* C28: when agent.run returns without raising for every selected
\* characteristic tool_map knows, analyze returns one analysis entry for
\* each of them: characteristics_analyzed is the number of selected
\* characteristics with supported names.
C28_AllReturnedAllAnalysed ==
    (/\ Wrapper = "analyze"
     /\ wpc = "returned"
     /\ ~outcome.cancelled
     /\ \A k \in 1..Len(attempted) : ~attempted[k].raised) =>
        /\ Len(analyses) = Len(Supported(selected_chars))
        /\ wresult.characteristics_analyzed = Len(Supported(selected_chars))

\* C29: a run of execute_pipeline in which no step was handed to
\* _execute_step and which returns, returns success=true with an empty
\* results map; a pipeline without steps, and a pipeline whose steps are all
\* optional and all have a prerequisite (none of which ever gets a result),
\* end that way.
C29_NothingExecutedIsSuccess ==
    /\ (ppc = "returned" /\ started = <<>>) =>
          /\ poutcome.success
          /\ poutcome.results = EmptyDict
    /\ (/\ PipelineOver
        /\ \A i \in 1..P : ~pipeline[i].required /\ pipeline[i].depends_on # <<>>) =>
          /\ ppc = "returned"
          /\ started = <<>>
          /\ poutcome.success
          /\ poutcome.results = EmptyDict

C29_Witness ==
    /\ ppc = "returned"
    /\ P = 2
    /\ \A i \in 1..P : ~pipeline[i].required /\ pipeline[i].depends_on # <<>>
    /\ poutcome.success
    /\ poutcome.results = EmptyDict
    /\ context # EmptyDict

(* ===================== properties of check_structure ================== *)

\* references of the model that do not resolve
DanglingSources ==
    {i \in 1..Len(c4model.relationships) :
        c4model.relationships[i].source \notin
            IdsOf(c4model.systems) \cup IdsOf(c4model.containers)
                \cup IdsOf(c4model.components) \cup IdsOf(c4model.externals)}
DanglingTargets ==
    {i \in 1..Len(c4model.relationships) :
        c4model.relationships[i].target \notin
            IdsOf(c4model.systems) \cup IdsOf(c4model.containers)
                \cup IdsOf(c4model.components) \cup IdsOf(c4model.externals)}
DanglingContainers ==
    {i \in 1..Len(c4model.containers) :
        c4model.containers[i].system_id \notin IdsOf(c4model.systems)}
DanglingComponents ==
    {i \in 1..Len(c4model.components) :
        c4model.components[i].container_id \notin IdsOf(c4model.containers)}
\* how often `issue` is reported
Reported(issue) ==
    Cardinality({k \in 1..Len(structure.issues) : structure.issues[k] = issue})
\* the issue texts
SourceIssue(rel) ==
    "Relationship " \o rel.id \o ": source '" \o rel.source \o "' not found"
TargetIssue(rel) ==
    "Relationship " \o rel.id \o ": target '" \o rel.target \o "' not found"
ContainerIssue(c) ==
    "Container " \o c.name \o ": references unknown system '" \o c.system_id \o "'"
ComponentIssue(c) ==
    "Component " \o c.name \o ": references unknown container '"
        \o c.container_id \o "'"

\* C24: check_structure returns for every model, and its issues are: one
\* for each relationship source and one for each relationship target that
\* is not the id of a system, container, component or external system, one
\* for each container whose system_id is not a system id, one for each
\* component whose container_id is not a container id, and nothing else.
C24_StructureIssues ==
    /\ vpc = "returned" => structure.returned
    /\ structure.returned =>
          /\ Len(structure.issues)
                = Cardinality(DanglingSources) + Cardinality(DanglingTargets)
                  + Cardinality(DanglingContainers)
                  + Cardinality(DanglingComponents)
          /\ \A i \in 1..Len(c4model.relationships) :
                /\ Reported(SourceIssue(c4model.relationships[i])) >=
                      (IF i \in DanglingSources THEN 1 ELSE 0)
                /\ i \notin DanglingSources =>
                      Reported(SourceIssue(c4model.relationships[i])) = 0
                /\ Reported(TargetIssue(c4model.relationships[i])) >=
                      (IF i \in DanglingTargets THEN 1 ELSE 0)
                /\ i \notin DanglingTargets =>
                      Reported(TargetIssue(c4model.relationships[i])) = 0
          /\ \A i \in 1..Len(c4model.containers) :
                (Reported(ContainerIssue(c4model.containers[i])) > 0)
                    = (i \in DanglingContainers)
          /\ \A i \in 1..Len(c4model.components) :
                (Reported(ComponentIssue(c4model.components[i])) > 0)
                    = (i \in DanglingComponents)

C24_Witness ==
    /\ vpc = "returned"
    /\ Len(c4model.relationships) = 1
    /\ c4model.relationships[1].source = "a"
    /\ c4model.relationships[1].target = "b"
    /\ c4model.externals = <<ExternalSystem("a")>>
    /\ c4model.systems = <<>>
    /\ Len(c4model.containers) = 1
    /\ c4model.components = <<>>
    /\ c4model.containers[1].id = "a"
    /\ Len(structure.issues) = 2

(* ================ properties of overlapping invocations =============== *)

\* the items of invocation 1 (2) that update_progress was not pointed at
Untouched(object, id) ==
    \A k \in 1..Len(progress) :
        ~(progress[k].target = object /\ progress[k].item_id = id)

\* C26: when a second invocation starts on the agent while the first is
\* suspended, each invocation runs the callbacks of its own items, in order,
\* and returns one result per item of its own checklist; current_checklist
\* is the checklist built last, also after either invocation has returned;
\* every update_progress call marks the checklist built last, whichever
\* invocation's callback made it.
C26_CurrentIsLatestBuilt ==
    /\ current_checklist = built
    /\ second.pc # "idle" => second.object = 2 /\ built = 2
    /\ \A k \in 1..Len(progress) : progress[k].target = progress[k].latest
    /\ pc = "done" =>
          /\ Len(results) = Len(built_checklist.items)
          /\ calls = [i \in 1..Len(built_checklist.items) |-> i]
          /\ \A i \in 1..Len(checklist.items) :
                Untouched(1, checklist.items[i].id) =>
                    /\ checklist.items[i].completed
                          = (finished[i].kind = "return")
                    /\ finished[i].kind = "return" =>
                          checklist.items[i].result = results[i]
    /\ second.pc = "done" =>
          /\ Len(second.results) = Len(second.built_checklist.items)
          /\ second.calls = [i \in 1..Len(second.built_checklist.items) |-> i]
          /\ \A i \in 1..Len(second.checklist.items) :
                Untouched(2, second.checklist.items[i].id) =>
                    /\ second.checklist.items[i].completed
                          = (second.results[i] # None)
                    /\ second.results[i] # None =>
                          second.checklist.items[i].result = second.results[i]

C26_Witness ==
    /\ pc = "done"
    /\ second.pc = "done"
    /\ Len(checklist.items) = 2
    /\ Len(second.checklist.items) = 1
    /\ current_checklist = 2
    /\ Len(progress) = 1
    /\ progress[1].caller = 1
    /\ progress[1].target = 2
    /\ progress[1].item_id = "1"
    /\ second.checklist.items[1].result = "50% done"
    /\ second.results = <<"Executed: task">>

(* ================= properties of a broker used again ================== *)

\* the context after the step outputs ended[k..upto] were written to ctx
RECURSIVE WrittenBySteps(_, _, _)
WrittenBySteps(ctx, k, upto) ==
    IF k > upto THEN ctx
    ELSE WrittenBySteps(
            IF ended[k].kind = "return"
            THEN Put(ctx, StepName(ended[k].step), ended[k].value)
            ELSE ctx,
            k + 1, upto)

\* the context after the writes of the calls r, r + 1, ... were made to ctx,
\* in the order they were made
RECURSIVE WrittenByRuns(_, _)
WrittenByRuns(ctx, r) ==
    IF r > Len(starts) THEN ctx
    ELSE LET upto == IF r = Len(starts) THEN Len(ended) ELSE starts[r + 1].at
         IN  WrittenByRuns(
                WrittenBySteps(Update(ctx, starts[r].ic), starts[r].at + 1, upto),
                r + 1)

\* C27: whatever execute_pipeline calls were made on a broker, in every
\* state its context holds every key of every initial_context passed and
\* the name of every step that returned, each with the value written to it
\* last, and nothing else; no call removes an entry.
C27_ContextAccumulates ==
    /\ \A r \in 1..Len(starts) : DOMAIN starts[r].ic \subseteq DOMAIN context
    /\ \A k \in 1..Len(ended) :
          ended[k].kind = "return" => StepName(ended[k].step) \in DOMAIN context
    /\ context = WrittenByRuns(EmptyDict, 1)

\* a generator without dependencies, in a second call that passes no
\* initial_context, runs on the discovery the first call's initial_context
\* left, and the first call's step output has been replaced
C27_Witness ==
    /\ Len(starts) = 2
    /\ "discovery" \in DOMAIN starts[1].ic
    /\ starts[2].ic = EmptyDict
    /\ starts[2].at = 1
    /\ ended[1].kind = "return"
    /\ ended[1].value = "DiscoveryResult:new"
    /\ ppc = "returned"
    /\ Len(pipeline) = 1
    /\ pipeline[1].agent = "generator"
    /\ pipeline[1].depends_on = <<>>
    /\ presults[StepName(1)].success
    /\ context[StepName(1)] = "C4Model:new"
    /\ context["discovery"] = "DiscoveryResult:old"
    /\ context["repo_path"] = "/repo"

====
